---- MODULE Spec2Model ----
(***************************************************************************)
(* Model of the client composition and resilience layer of gollm-x.        *)
(*                                                                         *)
(* This part covers the backoff retry engine of retry.go: Retryer.Do,      *)
(* DoWithResult, shouldRetry, calculateDelay, isNetworkError and the       *)
(* RetryableClient decorator.                                              *)
(*                                                                         *)
(* Durations are whole nanoseconds, as time.Duration is.  The float64      *)
(* quantities of RetryConfig (Multiplier, Jitter) and the draw of          *)
(* rng.Float64() are rationals num/den; calculateDelay is evaluated in     *)
(* exact rational arithmetic and converted to a duration by truncation     *)
(* toward zero, which is what float64 arithmetic followed by               *)
(* time.Duration(delay) yields for the dyadic values and small magnitudes  *)
(* used here.                                                              *)
(***************************************************************************)
EXTENDS Integers, Sequences, FiniteSets, TLC

\* ------------------------------------------------------------------------
\* Bounds of the model
\* ------------------------------------------------------------------------

\* largest MaxRetries a policy of the model has (the smallest is -1)
MaxN == 2

\* largest attempt index handed to calculateDelay in SpecDelay
MaxK == 4

\* largest InitialDelay / MaxDelay of a policy, in nanoseconds
MaxDur == 3

\* clock ticks in one second: the resolution of the limiter's clock
TicksPerSecond == 2

\* number of concurrent callers of one limiter
NProcs == 2

\* number of calls the callers start on one limiter
MaxCalls == 3

\* largest RequestsPerMinute handed to NewRateLimiter in SpecNewLimiter
MaxRPM == 61

\* ------------------------------------------------------------------------
\* Error values
\* ------------------------------------------------------------------------

\* ErrorType constants of the package
ErrorTypes ==
  {"authentication", "rate_limit", "invalid_request", "server", "network",
   "timeout", "content_filter", "model_not_found", "quota_exceeded", "unknown"}

\* Messages are sequences of ASCII codes
MsgRateLimited == <<114,97,116,101,32,108,105,109,105,116,101,100>>
MsgUnauthorized == <<117,110,97,117,116,104,111,114,105,122,101,100>>
MsgServerError == <<115,101,114,118,101,114,32,101,114,114,111,114>>
MsgRandomError == <<114,97,110,100,111,109,32,101,114,114,111,114>>
MsgConnReset == <<67,111,110,110,101,99,116,105,111,110,32,82,101,115,101,116,32,98,121,32,112,101,101,114>>
MsgCanceled == <<99,111,110,116,101,120,116,32,99,97,110,99,101,108,101,100>>
MsgDeadline == <<99,111,110,116,101,120,116,32,100,101,97,100,108,105,110,101,32,101,120,99,101,101,100,101,100>>

\* the nil error
NoErr ==
  [kind |-> "nil", Type |-> "", Retryable |-> FALSE, RetryAfter |-> 0, Message |-> <<>>]

\* &APIError{Type: t, Retryable: r, RetryAfter: ra, Message: m}
APIError(t, r, ra, m) ==
  [kind |-> "api", Type |-> t, Retryable |-> r, RetryAfter |-> ra, Message |-> m]

\* errors.New(m): an error that is not an *APIError
PlainError(m) ==
  [kind |-> "plain", Type |-> "", Retryable |-> FALSE, RetryAfter |-> 0, Message |-> m]

\* ctx.Err() of a cancelled context
CtxError(e) ==
  IF e = "Canceled" THEN PlainError(MsgCanceled) ELSE PlainError(MsgDeadline)

\* ------------------------------------------------------------------------
\* isNetworkError and its helpers
\* ------------------------------------------------------------------------

networkPatterns ==
  << <<99,111,110,110,101,99,116,105,111,110,32,114,101,102,117,115,101,100>>,
     <<99,111,110,110,101,99,116,105,111,110,32,114,101,115,101,116>>,
     <<110,111,32,115,117,99,104,32,104,111,115,116>>,
     <<110,101,116,119,111,114,107,32,105,115,32,117,110,114,101,97,99,104,97,98,108,101>>,
     <<105,47,111,32,116,105,109,101,111,117,116>>,
     <<69,79,70>>,
     <<98,114,111,107,101,110,32,112,105,112,101>>,
     <<99,111,110,110,101,99,116,105,111,110,32,116,105,109,101,100,32,111,117,116>> >>

\* the ASCII lower-casing of one byte
lowerASCII(c) == IF c >= 65 /\ c <= 90 THEN c + 32 ELSE c

equalFoldASCII(a, b) ==
  /\ Len(a) = Len(b)
  /\ \A i \in 1..Len(a) : lowerASCII(a[i]) = lowerASCII(b[i])

containsIgnoreCase(s, substr) ==
  \E i \in 0..(Len(s) - Len(substr)) :
     equalFoldASCII(SubSeq(s, i + 1, i + Len(substr)), substr)

contains(s, substr) ==
  /\ Len(s) >= Len(substr)
  /\ (s = substr \/ (Len(s) > 0 /\ containsIgnoreCase(s, substr)))

isNetworkError(err) ==
  IF err.kind = "nil" THEN FALSE
  ELSE \E p \in 1..Len(networkPatterns) : contains(err.Message, networkPatterns[p])

\* ------------------------------------------------------------------------
\* State
\* ------------------------------------------------------------------------
VARIABLES
  cfg,       \* Retryer.config
  method,    \* the entry point of the call
  pc,        \* position of the call
  attempt,   \* loop variable of Do / DoWithResult
  lastErr,   \* lastErr of Do / DoWithResult
  delay,     \* delay of the current select
  elapsed,   \* nanoseconds spent in the current select
  ctxErr,    \* ctx.Err(): "nil" | "Canceled" | "DeadlineExceeded"
  result,    \* the (value, error) pair the call returned
  outcomes,  \* history: what each invocation of the operation returned
  waits,     \* history: the selects that ended
  cancelAt,  \* history: where the call was when the context was cancelled
  kIn,       \* SpecDelay: [k, err, u], the input of calculateDelay
  lcfg,      \* the RateLimitConfig handed to NewRateLimiter
  lim,       \* the *RateLimiter: tokens, maxTokens, refillRate, waitTimeout
  since,     \* time.Now() - lim.lastRefill, in ticks
  mu,        \* lim.mu: 0 when free, else the caller holding it
  lp,        \* per caller: the call on the limiter it is in
  ncalls,    \* number of calls started on the limiter
  tryLog,    \* history: the results of the TryAcquire calls made before any time passed
  noTime,    \* history: no time has passed since NewRateLimiter
  registry,  \* the registry map: provider id -> factory, 0 where absent
  registryMu, \* registryMu: [writer, readers]
  rp,        \* per caller: the call on the registry it is in
  rcalls,    \* number of calls started on the registry
  writes,    \* history: the stores into the registry, in order
  regDone,   \* history: the factories whose Register has returned
  ch,        \* the chan StreamChunk: [buf, cap, closed]
  body,      \* the response body: [lines, closed]
  producer,  \* the goroutine feeding ch: [pc, chunk]
  reader,    \* the *StreamReader: [err, closed]
  consumer,  \* the caller of Next / Collect
  streamCtx, \* the context of the streaming call is cancelled
  pushed,    \* history: the chunks sent into ch, in order
  yields,    \* history: what each Next call returned, and Err() after it
  rng,       \* Retryer.rng: the state of the shared random source
  rc,        \* per caller: the call through the shared Retryer it is in
  outer      \* the wrapper the caller holds when RetryableClient and
             \* RateLimitedClient wrap one another: "retry" | "limiter" | "none"

retryVars ==
  <<cfg, method, pc, attempt, lastErr, delay, elapsed, ctxErr, result,
    outcomes, waits, cancelAt, kIn>>

limVars == <<lcfg, lim, since, mu, lp, ncalls, tryLog, noTime>>

\* the state of the components other than the retry engine
regVars == <<registry, registryMu, rp, rcalls, writes, regDone>>
streamVars == <<ch, body, producer, reader, consumer, streamCtx, pushed, yields>>
sharedVars == <<rng, rc, outer>>
extVars == <<limVars, regVars, streamVars, sharedVars>>

vars == <<retryVars, extVars>>

\* ------------------------------------------------------------------------
\* Components that take no part in a specification stay in these states
\* ------------------------------------------------------------------------

\* no limiter is built and nobody calls one
LimInert ==
  /\ lcfg = [RequestsPerMinute |-> 0, BurstSize |-> 0, WaitTimeout |-> 0]
  /\ lim = [state |-> "unbuilt", tokens |-> 0, maxTokens |-> 0, rpm |-> 0, waitTimeout |-> 0]
  /\ since = 0
  /\ mu = 0
  /\ lp = <<>>
  /\ ncalls = 0
  /\ tryLog = <<>>
  /\ noTime = TRUE

\* the registry is empty and nobody calls it
RegInert ==
  /\ registry = <<>>
  /\ registryMu = [writer |-> 0, readers |-> {}]
  /\ rp = <<>>
  /\ rcalls = 0
  /\ writes = <<>>
  /\ regDone = {}

\* no stream is open
StreamInert ==
  /\ ch = [buf |-> <<>>, cap |-> 0, closed |-> FALSE]
  /\ body = [lines |-> <<>>, end |-> "eof", closed |-> FALSE]
  /\ producer = [pc |-> "none"]
  /\ reader = [err |-> NoErr, closed |-> FALSE]
  /\ consumer = [pc |-> "none"]
  /\ streamCtx = FALSE
  /\ pushed = <<>>
  /\ yields = <<>>

\* nobody calls through a shared Retryer
SharedInert ==
  /\ rng = 0
  /\ rc = <<>>
  /\ outer = "none"

ExtInert == LimInert /\ RegInert /\ StreamInert /\ SharedInert

\* ------------------------------------------------------------------------
\* Retry policies
\* ------------------------------------------------------------------------

\* RetryableTypes of DefaultRetryConfig
DefaultRetryableTypes == {"rate_limit", "server", "network", "timeout"}

\* the RetryableTypes a Retryer of the model is built with: the default and
\* WithRetryableTypes(ErrorTypeRateLimit, ErrorTypeServer)
TypeSets == {DefaultRetryableTypes, {"rate_limit", "server"}}

\* NewRetryer(WithRetryMaxRetries(n), WithRetryInitialDelay(d), WithRetryMaxDelay(mx),
\*            WithRetryMultiplier(mn/md), WithRetryJitter(jn/jd), WithRetryableTypes(ts))
RetryConfig(n, d, mx, mn, md, jn, jd, ts) ==
  [MaxRetries |-> n, InitialDelay |-> d, MaxDelay |-> mx,
   MultNum |-> mn, MultDen |-> md, JitNum |-> jn, JitDen |-> jd,
   RetryableTypes |-> ts]

\* the policies of the Do / DoWithResult model
Configs ==
  { RetryConfig(n, p[1], p[2], p[3], p[4], p[5], p[6], ts) :
      n \in (-1)..MaxN,
      p \in { <<1, MaxDur - 1, 2, 1, 0, 1>>,
              <<1, MaxDur, 3, 2, 0, 1>>,
              <<2, MaxDur, 2, 1, 1, 2>> },
      ts \in TypeSets }

\* the policies calculateDelay is evaluated under in SpecDelay
DelayConfigs ==
  { RetryConfig(0, d, mx, m[1], m[2], j[1], j[2], DefaultRetryableTypes) :
      d \in 1..MaxDur, mx \in 1..(MaxDur + 1),
      m \in { <<1, 1>>, <<3, 2>>, <<2, 1>>, <<5, 4>> },
      j \in { <<0, 1>>, <<1, 4>>, <<1, 2>>, <<1, 1>> } }

\* values rng.Float64() returns, as <<num, den>>; they lie in [0, 1)
RngDraws == { <<0, 1>>, <<1, 2>>, <<3, 4>>, <<7, 8>> }

\* ------------------------------------------------------------------------
\* shouldRetry and calculateDelay
\* ------------------------------------------------------------------------

\* a classification that retries every error
shouldRetry_always(err) == TRUE

\* a classification in which the producer's flag alone decides for an *APIError
shouldRetry_flagOnly(err) ==
  IF err.kind = "api" THEN err.Retryable ELSE isNetworkError(err)

shouldRetry(err) ==
  IF err.kind = "api"
    THEN IF err.Retryable THEN TRUE
         ELSE \E t \in cfg.RetryableTypes : err.Type = t
    ELSE isNetworkError(err)

RECURSIVE Pow(_, _)
\* math.Pow(x, float64(n)) for a whole exponent n >= 0
Pow(x, n) == IF n = 0 THEN 1 ELSE x * Pow(x, n - 1)

\* time.Duration(f) for the float64 f = num/den, den > 0: truncation toward zero
TruncDiv(num, den) ==
  IF num >= 0 THEN num \div den ELSE -((-num) \div den)

\* a backoff that is not replaced by MaxDelay when larger
cappedBackoff_uncapped(att) ==
  <<cfg.InitialDelay * Pow(cfg.MultNum, att), Pow(cfg.MultDen, att)>>

\* the backoff of retry.go:215-220 as a fraction <<num, den>>:
\* InitialDelay * Multiplier^attempt, replaced by MaxDelay when larger
cappedBackoff(att) ==
  LET p == cfg.InitialDelay * Pow(cfg.MultNum, att)
      q == Pow(cfg.MultDen, att)
  IN  IF p > cfg.MaxDelay * q THEN <<cfg.MaxDelay, 1>> ELSE <<p, q>>

\* a delay whose retry-after is clamped to MaxDelay like the backoff
calculateDelay_clampedRetryAfter(att, err, u) ==
  IF err.kind = "api" /\ err.RetryAfter > 0
    THEN IF err.RetryAfter > cfg.MaxDelay THEN cfg.MaxDelay ELSE err.RetryAfter
    ELSE LET b == cappedBackoff(att)
         IN  IF cfg.JitNum > 0
               THEN TruncDiv(b[1] * (u[2] * cfg.JitDen) + (2 * u[1] - u[2]) * b[1] * cfg.JitNum,
                             b[2] * u[2] * cfg.JitDen)
               ELSE TruncDiv(b[1], b[2])

\* a jitter of twice the configured fraction
calculateDelay_wideJitter(att, err, u) ==
  IF err.kind = "api" /\ err.RetryAfter > 0
    THEN err.RetryAfter
    ELSE LET b == cappedBackoff(att)
         IN  IF cfg.JitNum > 0
               THEN TruncDiv(b[1] * (u[2] * cfg.JitDen) + 2 * (2 * u[1] - u[2]) * b[1] * cfg.JitNum,
                             b[2] * u[2] * cfg.JitDen)
               ELSE TruncDiv(b[1], b[2])

\* u is the value rng.Float64() returns when it is drawn
calculateDelay(att, err, u) ==
  IF err.kind = "api" /\ err.RetryAfter > 0
    THEN err.RetryAfter
    ELSE LET b == cappedBackoff(att)
         IN  IF cfg.JitNum > 0
               THEN \* delay += (u*2 - 1) * (delay * Jitter)
                    TruncDiv(b[1] * (u[2] * cfg.JitDen) + (2 * u[1] - u[2]) * b[1] * cfg.JitNum,
                             b[2] * u[2] * cfg.JitDen)
               ELSE TruncDiv(b[1], b[2])

\* returning the zero value variable instead of res
SuccessValue_zero(res) == 0

\* the value returned with a nil error: return res, nil
SuccessValue(res) == res

\* a loop that stops one attempt early
LoopCond_strict(att) == att < cfg.MaxRetries

\* the loop condition of Do / DoWithResult
LoopCond(att) == att <= cfg.MaxRetries

\* "Check if we have more retries": no retry is left
NoMoreRetries(att) == att >= cfg.MaxRetries

\* wrapping the last error in a new error instead of returning it
ExhaustedError_wrapped(err) == APIError("unknown", FALSE, 0, err.Message)

\* the error returned when a retryable error meets NoMoreRetries
ExhaustedError(err) == err

\* a wait without the ctx.Done() case
CtxDoneReady_never == FALSE

\* the case <-ctx.Done() of the select is ready
CtxDoneReady == ctxErr # "nil"

\* the case <-time.After(delay) of the select is ready
TimerReady == elapsed >= delay

\* "Check context before attempting"
CtxCancelledBeforeAttempt == ctxErr # "nil"

\* ------------------------------------------------------------------------
\* The operation handed to the retry engine
\* ------------------------------------------------------------------------

\* a retry-after above every MaxDelay of the model
\* (providers set 60s where the default MaxDelay is 30s)
LongRetryAfter == MaxDur + 2

\* the errors an invocation of the operation may return
ErrPool ==
  { APIError("rate_limit", TRUE, 0, MsgRateLimited),
    APIError("rate_limit", FALSE, 0, MsgRateLimited),
    APIError("rate_limit", TRUE, LongRetryAfter, MsgRateLimited),
    APIError("authentication", FALSE, 0, MsgUnauthorized),
    APIError("authentication", TRUE, 0, MsgUnauthorized),
    APIError("network", FALSE, 0, MsgServerError),
    PlainError(MsgConnReset),
    PlainError(MsgRandomError) }

\* the values a successful invocation may return (0 is the zero value of T)
Values == {1, 2}

\* the entry points
EngineMethods == {"Do", "DoWithResult"}
ClientMethods == {"Chat", "ChatStream", "Complete", "Embed"}

\* every request method wrapped in DoWithResult
UsesRetryEngine_all(m) == TRUE

\* the methods of RetryableClient that go through DoWithResult
UsesRetryEngine(m) == m \in {"Chat", "Complete", "Embed"}

\* the function an entry point invokes: fn for Do / DoWithResult, the method
\* of the same name of the wrapped client for RetryableClient
InnerOp(m) == IF m \in EngineMethods THEN "fn" ELSE m

\* what one invocation may return
OpOutcomes(m) ==
  { [op |-> InnerOp(m), val |-> v, err |-> NoErr] :
      v \in IF m = "Do" THEN {0} ELSE Values }
  \cup
  { [op |-> InnerOp(m), val |-> 0, err |-> e] : e \in ErrPool }

\* ------------------------------------------------------------------------
\* Initial states
\* ------------------------------------------------------------------------

NotCancelled == [pc |-> "none", elapsed |-> 0, calls |-> 0]

InitWith(cfgs, methods) ==
  /\ cfg \in cfgs
  /\ method \in methods
  /\ pc = "idle"
  /\ attempt = 0
  /\ lastErr = NoErr
  /\ delay = 0
  /\ elapsed = 0
  /\ ctxErr = "nil"
  /\ result = [val |-> 0, err |-> NoErr]
  /\ outcomes = <<>>
  /\ waits = <<>>
  /\ cancelAt = NotCancelled
  /\ kIn = [k |-> 0, err |-> NoErr, u |-> <<0, 1>>]
  /\ ExtInert

Init == InitWith(Configs, EngineMethods)

\* ------------------------------------------------------------------------
\* Do / DoWithResult
\* ------------------------------------------------------------------------

\* return (v, e)
Return(v, e) ==
  /\ pc' = "done"
  /\ result' = [val |-> v, err |-> e]

\* the caller enters Do, DoWithResult or a method of RetryableClient
StartCall ==
  /\ pc = "idle"
  /\ pc' = IF method \in EngineMethods \/ UsesRetryEngine(method) THEN "loop" ELSE "stream"
  /\ attempt' = 0
  /\ lastErr' = NoErr
  /\ UNCHANGED <<cfg, method, delay, elapsed, ctxErr, result, outcomes, waits,
                 cancelAt, kIn, extVars>>

\* the head of the for loop: the loop condition, then the context check
LoopHead ==
  /\ pc = "loop"
  /\ IF ~LoopCond(attempt)
       THEN Return(0, lastErr)
       ELSE IF CtxCancelledBeforeAttempt
              THEN Return(0, CtxError(ctxErr))
              ELSE /\ pc' = "invoke"
                   /\ UNCHANGED result
  /\ UNCHANGED <<cfg, method, attempt, lastErr, delay, elapsed, ctxErr,
                 outcomes, waits, cancelAt, kIn, extVars>>

\* what the loop does with the outcome of fn(), up to the select; u is the
\* value rng.Float64() returns if calculateDelay draws one
Attempted(out, u) ==
  /\ outcomes' = Append(outcomes, out)
  /\ IF out.err = NoErr
       THEN /\ Return(SuccessValue(out.val), NoErr)
            /\ UNCHANGED <<lastErr, delay, elapsed>>
       ELSE /\ lastErr' = out.err
            /\ IF ~shouldRetry(out.err)
                 THEN /\ Return(0, out.err)
                      /\ UNCHANGED <<delay, elapsed>>
                 ELSE IF NoMoreRetries(attempt)
                        THEN /\ Return(0, ExhaustedError(out.err))
                             /\ UNCHANGED <<delay, elapsed>>
                        ELSE /\ delay' = calculateDelay(attempt, out.err, u)
                             /\ elapsed' = 0
                             /\ pc' = "waiting"
                             /\ UNCHANGED result

\* fn() and everything up to the select
Invoke ==
  /\ pc = "invoke"
  /\ \E out \in OpOutcomes(method), u \in RngDraws : Attempted(out, u)
  /\ UNCHANGED <<cfg, method, attempt, ctxErr, waits, cancelAt, kIn, extVars>>

\* the select stays blocked for one more nanosecond: no case is ready
Tick ==
  /\ pc = "waiting"
  /\ ~CtxDoneReady
  /\ ~TimerReady
  /\ elapsed' = elapsed + 1
  /\ UNCHANGED <<cfg, method, pc, attempt, lastErr, delay, ctxErr, result,
                 outcomes, waits, cancelAt, kIn, extVars>>

\* case <-ctx.Done(): return ctx.Err()
WaitCancelled ==
  /\ pc = "waiting"
  /\ CtxDoneReady
  /\ waits' = Append(waits, [delay |-> delay, waited |-> elapsed, by |-> "ctx"])
  /\ Return(0, CtxError(ctxErr))
  /\ UNCHANGED <<cfg, method, attempt, lastErr, delay, elapsed, ctxErr,
                 outcomes, cancelAt, kIn, extVars>>

\* case <-time.After(delay): continue with the next attempt
TimerFired ==
  /\ pc = "waiting"
  /\ TimerReady
  /\ waits' = Append(waits, [delay |-> delay, waited |-> elapsed, by |-> "timer"])
  /\ attempt' = attempt + 1
  /\ pc' = "loop"
  /\ UNCHANGED <<cfg, method, lastErr, delay, elapsed, ctxErr, result,
                 outcomes, cancelAt, kIn, extVars>>

\* the caller's context is cancelled or its deadline passes
Cancel ==
  /\ ctxErr = "nil"
  /\ pc # "done"
  /\ \E e \in {"Canceled", "DeadlineExceeded"} : ctxErr' = e
  /\ cancelAt' = [pc |-> pc, elapsed |-> elapsed, calls |-> Len(outcomes)]
  /\ UNCHANGED <<cfg, method, pc, attempt, lastErr, delay, elapsed, result,
                 outcomes, waits, kIn, extVars>>

\* RetryableClient.ChatStream: return c.client.ChatStream(ctx, req)
ChatStream ==
  /\ pc = "stream"
  /\ \E out \in OpOutcomes(method) :
       /\ outcomes' = Append(outcomes, out)
       /\ Return(out.val, out.err)
  /\ UNCHANGED <<cfg, method, attempt, lastErr, delay, elapsed, ctxErr,
                 waits, cancelAt, kIn, extVars>>

Next ==
  \/ StartCall
  \/ LoopHead
  \/ Invoke
  \/ Tick
  \/ WaitCancelled
  \/ TimerFired
  \/ Cancel

Spec == Init /\ [][Next]_vars

\* RetryableClient: the four request methods over a wrapped client
InitClient == InitWith(Configs, ClientMethods)

NextClient ==
  \/ StartCall
  \/ LoopHead
  \/ Invoke
  \/ Tick
  \/ WaitCancelled
  \/ TimerFired
  \/ Cancel
  \/ ChatStream

SpecClient == InitClient /\ [][NextClient]_vars

\* calculateDelay as a function of its inputs
InitDelay ==
  /\ cfg \in DelayConfigs
  /\ method = "Do"
  /\ pc = "delay_in"
  /\ attempt = 0
  /\ lastErr = NoErr
  /\ delay = 0
  /\ elapsed = 0
  /\ ctxErr = "nil"
  /\ result = [val |-> 0, err |-> NoErr]
  /\ outcomes = <<>>
  /\ waits = <<>>
  /\ cancelAt = NotCancelled
  /\ kIn \in [k : 0..MaxK,
              err : {NoErr, PlainError(MsgConnReset),
                     APIError("rate_limit", TRUE, 0, MsgRateLimited),
                     APIError("rate_limit", TRUE, LongRetryAfter, MsgRateLimited)},
              u : RngDraws]
  /\ ExtInert

\* delay := r.calculateDelay(attempt, err)
ApplyCalculateDelay ==
  /\ pc = "delay_in"
  /\ delay' = calculateDelay(kIn.k, kIn.err, kIn.u)
  /\ pc' = "delay_out"
  /\ UNCHANGED <<cfg, method, attempt, lastErr, elapsed, ctxErr, result,
                 outcomes, waits, cancelAt, kIn, extVars>>

NextDelay == ApplyCalculateDelay

SpecDelay == InitDelay /\ [][NextDelay]_vars

\* ------------------------------------------------------------------------
\* Properties of the retry engine
\* ------------------------------------------------------------------------

Calls == Len(outcomes)

Failed(i) == outcomes[i].err # NoErr

\* the context was never cancelled during the call
NeverCancelled == ctxErr = "nil"

\* every invocation so far failed with an error the policy retries
AllFailedRetryable ==
  \A i \in 1..Calls : Failed(i) /\ shouldRetry(outcomes[i].err)

\* C1: with MaxRetries = N >= 0 and a context that is not cancelled, an
\* operation that fails with a retryable error on every invocation is
\* invoked exactly N+1 times, the engine waits N times (never when N = 0),
\* and the call returns an error.
C1_ExactlyNPlusOne ==
  (cfg.MaxRetries >= 0 /\ AllFailedRetryable) =>
     /\ Calls <= cfg.MaxRetries + 1
     /\ Len(waits) <= cfg.MaxRetries
     /\ (pc = "done" /\ NeverCancelled) =>
           /\ Calls = cfg.MaxRetries + 1
           /\ Len(waits) = cfg.MaxRetries
           /\ result.err # NoErr

C1_Witness ==
  /\ pc = "done" /\ NeverCancelled /\ AllFailedRetryable
  /\ cfg.MaxRetries = MaxN /\ Calls = MaxN + 1 /\ result.err # NoErr

\* the errors C2 calls non-retryable
NonRetryable(e) ==
  \/ e.kind = "api" /\ ~e.Retryable /\ e.Type \notin cfg.RetryableTypes
  \/ e.kind = "plain" /\ ~isNetworkError(e)

\* C2: if the first invocation fails with a non-retryable error, the
\* operation is invoked exactly once, the engine does not wait, and the call
\* returns that error.
C2_NonRetryableOnce ==
  (Calls >= 1 /\ NonRetryable(outcomes[1].err)) =>
     /\ pc = "done"
     /\ Calls = 1
     /\ waits = <<>>
     /\ result.err = outcomes[1].err

C2_Witness ==
  /\ pc = "done" /\ Calls = 1 /\ cfg.MaxRetries >= 1
  /\ outcomes[1].err = PlainError(MsgRandomError)
  /\ result.err = PlainError(MsgRandomError)

\* C3: if the first k invocations fail with retryable errors and invocation
\* k+1 succeeds, the operation is invoked exactly k+1 times, each invocation
\* after the previous wait has ended, and the call returns the value of the
\* successful invocation with a nil error; nothing is invoked after the
\* first success.
C3_SuccessAfterRetries ==
  \A i \in 1..Calls :
     ~Failed(i) =>
        /\ i = Calls
        /\ pc = "done"
        /\ result = [val |-> outcomes[i].val, err |-> NoErr]
        /\ Len(waits) = i - 1
        /\ \A j \in 1..(i - 1) :
              /\ Failed(j) /\ shouldRetry(outcomes[j].err)
              /\ waits[j].by = "timer"

C3_Witness ==
  /\ method = "DoWithResult" /\ pc = "done"
  /\ Calls = 3 /\ Failed(1) /\ Failed(2) /\ ~Failed(3)
  /\ result = [val |-> 2, err |-> NoErr]

\* the error carries an explicit retry-after
HasRetryAfter(e) == e.kind = "api" /\ e.RetryAfter > 0

\* C4 as stated: with jitter 0 and no retry-after on the error, the delay
\* before retry k equals min(d*m^k, M) exactly (compared after multiplying
\* both sides by the denominator of m^k).
C4_DelayExactlyMin ==
  (pc = "delay_out" /\ cfg.JitNum = 0 /\ ~HasRetryAfter(kIn.err)) =>
     LET p == cfg.InitialDelay * Pow(cfg.MultNum, kIn.k)
         q == Pow(cfg.MultDen, kIn.k)
         m == cfg.MaxDelay * q
     IN  delay * q = (IF p <= m THEN p ELSE m)

\* C4 amended: with jitter 0 and no retry-after on the error, the delay
\* before retry k is min(d*m^k, M) rounded down to a whole nanosecond: the
\* largest whole number of nanoseconds not above min(d*m^k, M).
C4_DelayFloorOfMin ==
  (pc = "delay_out" /\ cfg.JitNum = 0 /\ ~HasRetryAfter(kIn.err)) =>
     LET p == cfg.InitialDelay * Pow(cfg.MultNum, kIn.k)
         q == Pow(cfg.MultDen, kIn.k)
         m == cfg.MaxDelay * q
         lo == IF p <= m THEN p ELSE m
     IN  /\ delay * q <= lo
         /\ lo < (delay + 1) * q

\* 1ns * 1.25^4 = 2.44ns, below MaxDelay = 4ns: the delay is 2ns
C4_Witness ==
  /\ pc = "delay_out" /\ cfg.JitNum = 0 /\ kIn.err = NoErr
  /\ kIn.k = 4 /\ cfg.InitialDelay = 1 /\ cfg.MaxDelay = 4
  /\ cfg.MultNum = 5 /\ cfg.MultDen = 4 /\ delay = 2

\* C5: when the failed attempt's error carries a retry-after, the delay of
\* the wait that follows is that duration (whatever MaxDelay and the jitter
\* are), and a wait ended by its timer lasted exactly that long.
C5_RetryAfterVerbatim ==
  /\ \A i \in 1..Len(waits) :
        HasRetryAfter(outcomes[i].err) =>
           /\ waits[i].delay = outcomes[i].err.RetryAfter
           /\ (waits[i].by = "timer" => waits[i].waited = outcomes[i].err.RetryAfter)
  /\ (pc = "waiting" /\ HasRetryAfter(outcomes[Calls].err)) =>
        delay = outcomes[Calls].err.RetryAfter

C5_Witness ==
  /\ Len(waits) >= 1 /\ waits[1].by = "timer"
  /\ HasRetryAfter(outcomes[1].err)
  /\ waits[1].waited = LongRetryAfter
  /\ LongRetryAfter > cfg.MaxDelay /\ cfg.JitNum > 0
  /\ Calls = 2

\* C6 as stated: if the context is already cancelled when Do / DoWithResult
\* is called, the call returns the cancellation error and the operation is
\* invoked zero times.
C6_CancelledBeforeCall ==
  (cancelAt.pc = "idle" /\ pc = "done") =>
     /\ result.err = CtxError(ctxErr)
     /\ Calls = 0

\* C7: if the context is cancelled while the engine waits between attempts,
\* the operation is not invoked again, the call returns ctx.Err(), and the
\* wait lasted no longer than it had at the moment of the cancellation.
C7_CancelDuringWait ==
  cancelAt.pc = "waiting" =>
     /\ Calls = cancelAt.calls
     /\ pc \in {"waiting", "loop", "done"}
     /\ elapsed = cancelAt.elapsed
     /\ pc = "done" =>
           /\ result.err = CtxError(ctxErr)
           /\ waits[Len(waits)].waited = cancelAt.elapsed

C7_Witness ==
  /\ pc = "done" /\ cancelAt.pc = "waiting"
  /\ cancelAt.elapsed = 1 /\ waits[Len(waits)].delay > 1
  /\ waits[Len(waits)].by = "ctx"
  /\ result.err = CtxError("Canceled")
  /\ Calls = 2 /\ cfg.MaxRetries = MaxN

\* the attempt budget is exhausted: MaxRetries+1 invocations, the last failed
Exhausted ==
  /\ pc = "done"
  /\ cfg.MaxRetries >= 0
  /\ Calls = cfg.MaxRetries + 1
  /\ Failed(Calls)

\* the kinds section 7 of the specification calls transient
TransientKinds == {"rate_limit", "server", "network", "timeout"}

\* invocation i was the last one and its error was returned
ReturnedAt(i) ==
  /\ i = Calls
  /\ pc = "done"
  /\ result.err = outcomes[i].err
  /\ Len(waits) = i - 1

\* C8, first half: when the attempt budget is exhausted the call returns
\* exactly the error of the final invocation.
C8_LastErrorUnchanged ==
  Exhausted => result.err = outcomes[Calls].err

\* C8 as stated: the first half, and an error of a non-transient kind is
\* returned on its first occurrence.
C8_NonTransientFirstOccurrence ==
  /\ C8_LastErrorUnchanged
  /\ \A i \in 1..Calls :
        (outcomes[i].err.kind = "api" /\ outcomes[i].err.Type \notin TransientKinds)
           => ReturnedAt(i)

\* C8 amended: the first half, and an error of a kind outside the policy's
\* retryable kinds that its producer did not flag retryable is returned on
\* its first occurrence.
C8_UnflaggedNonRetryableKindFirstOccurrence ==
  /\ C8_LastErrorUnchanged
  /\ \A i \in 1..Calls :
        (/\ outcomes[i].err.kind = "api"
         /\ outcomes[i].err.Type \notin cfg.RetryableTypes
         /\ ~outcomes[i].err.Retryable)
           => ReturnedAt(i)

C8_Witness ==
  /\ Exhausted /\ Calls = 3
  /\ outcomes[1].err # outcomes[3].err
  /\ outcomes[2].err # outcomes[3].err
  /\ result.err = outcomes[3].err
  /\ result.err = PlainError(MsgConnReset)

\* after the failed invocation i the engine went on to a wait
Retried(i) ==
  \/ Len(waits) >= i
  \/ pc = "waiting" /\ Calls = i

\* a retry remained after invocation i
RetryLeft(i) == i <= cfg.MaxRetries

FlaggedOutsideSet(e) ==
  e.kind = "api" /\ e.Retryable /\ e.Type \notin cfg.RetryableTypes

UnflaggedInsideSet(e) ==
  e.kind = "api" /\ ~e.Retryable /\ e.Type \in cfg.RetryableTypes

\* C9 as stated: the flag decides whenever it disagrees with the policy's
\* set: flagged retryable with a kind outside the set is retried, and not
\* flagged with a kind inside the set is not retried.
C9_FlagDecides ==
  \A i \in 1..Calls :
     /\ (FlaggedOutsideSet(outcomes[i].err) /\ RetryLeft(i)) => Retried(i)
     /\ UnflaggedInsideSet(outcomes[i].err) => ReturnedAt(i)

\* C9 amended: an error flagged retryable whose kind is outside the set is
\* retried, and so is an error not flagged retryable whose kind is inside
\* the set: the flag adds to the policy's classification and never vetoes it.
C9_FlagOrKind ==
  \A i \in 1..Calls :
     /\ (FlaggedOutsideSet(outcomes[i].err) /\ RetryLeft(i)) => Retried(i)
     /\ (UnflaggedInsideSet(outcomes[i].err) /\ RetryLeft(i)) => Retried(i)

C9_Witness ==
  /\ Calls = 3
  /\ FlaggedOutsideSet(outcomes[1].err)
  /\ UnflaggedInsideSet(outcomes[2].err)
  /\ outcomes[2].err.Type = "network"

\* C10: RetryableClient.ChatStream invokes the wrapped client's ChatStream
\* exactly once and returns its value and error unchanged, without a wait,
\* whatever the policy and the error; a second invocation or a wait happens
\* only in Chat, Complete and Embed, and each method invokes only the wrapped
\* method of its own name.
C10_StreamNotRetried ==
  /\ \A i \in 1..Calls : outcomes[i].op = method
  /\ method = "ChatStream" =>
        /\ Calls <= 1
        /\ waits = <<>>
        /\ pc \in {"idle", "stream", "done"}
        /\ pc = "done" =>
              /\ Calls = 1
              /\ result = [val |-> outcomes[1].val, err |-> outcomes[1].err]
  /\ (Calls > 1 \/ waits # <<>> \/ pc \in {"loop", "invoke", "waiting"}) =>
        method \in {"Chat", "Complete", "Embed"}

C10_Witness ==
  /\ method = "ChatStream" /\ pc = "done" /\ Calls = 1
  /\ cfg.MaxRetries >= 1
  /\ shouldRetry(outcomes[1].err)
  /\ result.err = outcomes[1].err
  /\ ctxErr = "nil"

\* ========================================================================
\* Token-bucket rate limiter (ratelimit.go)
\*
\* Time is counted in clock ticks, TicksPerSecond of them in a second.  The
\* float64 token counts are kept exactly, as multiples of 1/TokenScale of a
\* token: a tick at RequestsPerMinute = rpm adds rpm such units.  The
\* limiter's lastRefill is kept as the time elapsed since then, which stops
\* growing once it is long enough to fill the bucket (refill caps at
\* maxTokens, so a longer time refills the same).
\* ========================================================================

\* one token, in the units tokens are counted in
TokenScale == 60 * TicksPerSecond

MsgWaitTimeout == <<114,97,116,101,32,108,105,109,105,116,32,119,97,105,116,32,116,105,109,101,111,117,116>>

\* the error Acquire returns from its select
RateLimitTimeoutError == APIError("rate_limit", FALSE, 0, MsgWaitTimeout)

\* the nil *RateLimiter
NilLimiter ==
  [state |-> "nil", tokens |-> 0, maxTokens |-> 0, rpm |-> 0, waitTimeout |-> 0]

\* a limiter that leaves BurstSize = 0 at zero tokens of capacity
NewRateLimiter_noFloor(c) ==
  IF c.RequestsPerMinute <= 0
    THEN NilLimiter
    ELSE LET burstSize == IF c.BurstSize <= 0
                            THEN c.RequestsPerMinute \div 10
                            ELSE c.BurstSize
         IN  [state |-> "live",
              tokens |-> burstSize * TokenScale,
              maxTokens |-> burstSize * TokenScale,
              rpm |-> c.RequestsPerMinute,
              waitTimeout |-> c.WaitTimeout]

\* a limiter is built for RequestsPerMinute <= 0 as well
NewRateLimiter_neverNil(c) ==
  LET burstSize == IF c.BurstSize <= 0
                     THEN IF c.RequestsPerMinute \div 10 < 1 THEN 1
                          ELSE c.RequestsPerMinute \div 10
                     ELSE c.BurstSize
  IN  [state |-> "live",
       tokens |-> burstSize * TokenScale,
       maxTokens |-> burstSize * TokenScale,
       rpm |-> c.RequestsPerMinute,
       waitTimeout |-> c.WaitTimeout]

NewRateLimiter(c) ==
  IF c.RequestsPerMinute <= 0
    THEN NilLimiter
    ELSE LET burstSize == IF c.BurstSize <= 0
                            THEN IF c.RequestsPerMinute \div 10 < 1 THEN 1
                                 ELSE c.RequestsPerMinute \div 10
                            ELSE c.BurstSize
         IN  [state |-> "live",
              tokens |-> burstSize * TokenScale,
              maxTokens |-> burstSize * TokenScale,
              rpm |-> c.RequestsPerMinute,
              waitTimeout |-> c.WaitTimeout]

\* a refill that does not cap the tokens at maxTokens
refill_uncapped(l, el) == [l EXCEPT !.tokens = l.tokens + el * l.rpm]

\* a refill that adds nothing
refill_none(l, el) == l

\* r.refill() after el ticks: tokens += elapsed * refillRate, capped
refill(l, el) ==
  LET t == l.tokens + el * l.rpm
  IN  [l EXCEPT !.tokens = IF t > l.maxTokens THEN l.maxTokens ELSE t]

\* the elapsed time from which a refill fills the bucket whatever it holds
FullAfter(l) ==
  IF l.state = "live" THEN (l.maxTokens + l.rpm - 1) \div l.rpm ELSE 0

\* r.tokens >= 1
HasToken(l) == l.tokens >= TokenScale

\* the context is looked at before the tokens are
AcquireGrants_ctxFirst(l, c) == ~c.cancelled /\ HasToken(l)

\* if r.tokens >= 1, in Acquire and in TryAcquire: the caller's context
\* takes no part in the test
AcquireGrants(l, c) == HasToken(l)

\* a token is handed out and stays in the bucket
consume_none(l) == l

\* two tokens are taken for one acquisition
consume_two(l) == [l EXCEPT !.tokens = l.tokens - 2 * TokenScale]

\* r.tokens--
consume(l) == [l EXCEPT !.tokens = l.tokens - TokenScale]

\* waitTime := (1 - r.tokens) / r.refillRate, in ticks; time.After(waitTime)
\* fires at the first tick that is not earlier than waitTime
waitTime(l) == (TokenScale - l.tokens + l.rpm - 1) \div l.rpm

\* the callers of a limiter
LProcs == 1..NProcs

LimiterOps == {"Acquire", "TryAcquire", "Available"}

\* the methods of RateLimitedClient that call limiter.Acquire
ThrottledOps == {"Chat", "ChatStream", "Complete", "Embed"}

\* the operations that go through Acquire
Acquires(op) == op = "Acquire" \/ op \in ThrottledOps

\* a caller that is in no call
IdleCall ==
  [op |-> "none", pc |-> "idle", sleepLeft |-> 0, deadlineLeft |-> -1,
   cancelled |-> FALSE, ok |-> FALSE, avail |-> 0, val |-> 0, err |-> NoErr,
   slept |-> 0, sleeps |-> 0, took |-> 0, innerN |-> 0]

\* ctx, cancel = context.WithTimeout(ctx, r.waitTimeout) when waitTimeout > 0;
\* -1 stands for a context without a deadline
AcquireDeadline(l, op) ==
  IF Acquires(op) /\ l.state = "live" /\ l.waitTimeout > 0
    THEN l.waitTimeout
    ELSE -1

\* a wait budget that starts again with every sleep
SelectDeadline_perSleep(l, c) ==
  IF c.deadlineLeft >= 0 THEN l.waitTimeout ELSE c.deadlineLeft

\* the deadline of the ctx the select waits on: the one made before the loop
SelectDeadline(l, c) == c.deadlineLeft

\* <-ctx.Done() is ready: the caller's context is cancelled or the
\* wait-timeout context has expired
LimCtxDone(c) == c.cancelled \/ c.deadlineLeft = 0

\* <-time.After(waitTime) is ready
LimTimerReady(c) == c.sleepLeft <= 0

\* what the wrapped client may return
WrappedOutcomes(op) ==
  { o \in OpOutcomes(op) :
      \/ o.err = NoErr /\ o.val = 1
      \/ o.err = APIError("rate_limit", FALSE, 0, MsgRateLimited) }

\* the configurations of the limiter model
LimConfigs ==
  [RequestsPerMinute : {0, 60}, BurstSize : {1, 2}, WaitTimeout : {0, 2}]

\* the configurations of the RateLimitedClient model
ClientLimConfigs ==
  [RequestsPerMinute : {0, 60}, BurstSize : {1}, WaitTimeout : {2}]

\* more callers than tokens
FairConfigs ==
  [RequestsPerMinute : {60}, BurstSize : {1}, WaitTimeout : {0, 2}]

\* the configurations NewRateLimiter is evaluated on in SpecNewLimiter
NewLimiterConfigs ==
  [RequestsPerMinute : (-1)..MaxRPM, BurstSize : (-1)..3, WaitTimeout : {0, 3}]

\* the retry engine takes no part
RetryInert ==
  /\ cfg = RetryConfig(0, 1, 1, 1, 1, 0, 1, DefaultRetryableTypes)
  /\ method = "Do"
  /\ pc = "idle"
  /\ attempt = 0
  /\ lastErr = NoErr
  /\ delay = 0
  /\ elapsed = 0
  /\ ctxErr = "nil"
  /\ result = [val |-> 0, err |-> NoErr]
  /\ outcomes = <<>>
  /\ waits = <<>>
  /\ cancelAt = NotCancelled
  /\ kIn = [k |-> 0, err |-> NoErr, u |-> <<0, 1>>]

\* before NewRateLimiter(lcfg) is called
InitLimiterWith(cfgs) ==
  /\ RetryInert
  /\ lcfg \in cfgs
  /\ lim = [state |-> "unbuilt", tokens |-> 0, maxTokens |-> 0, rpm |-> 0, waitTimeout |-> 0]
  /\ since = 0
  /\ mu = 0
  /\ lp = [p \in LProcs |-> IdleCall]
  /\ ncalls = 0
  /\ tryLog = <<>>
  /\ noTime = TRUE
  /\ RegInert
  /\ StreamInert
  /\ SharedInert

\* limiter := NewRateLimiter(lcfg)
Build ==
  /\ lim.state = "unbuilt"
  /\ lim' = NewRateLimiter(lcfg)
  /\ UNCHANGED <<retryVars, regVars, streamVars, sharedVars, lcfg, since, mu, lp, ncalls, tryLog, noTime>>

\* caller p calls op on the limiter (or on the RateLimitedClient holding it)
LStart(p, op) ==
  /\ lim.state # "unbuilt"
  /\ lp[p].pc \in {"idle", "done"}
  /\ ncalls < MaxCalls
  /\ ncalls' = ncalls + 1
  /\ lp' = [lp EXCEPT ![p] =
              [IdleCall EXCEPT !.op = op, !.pc = "enter",
                               !.deadlineLeft = AcquireDeadline(lim, op)]]
  /\ UNCHANGED <<retryVars, regVars, streamVars, sharedVars, lcfg, lim, since, mu, tryLog, noTime>>

\* the outcome of TryAcquire is recorded while no time has passed; the
\* record is dropped with the first tick
Logged(b) == IF noTime THEN Append(tryLog, b) ELSE tryLog

\* the nil check of the method, else r.mu.Lock()
LEnter(p) ==
  /\ lp[p].pc = "enter"
  /\ IF lim.state = "nil"
       THEN /\ lp' = [lp EXCEPT ![p] =
                 IF @.op \in {"Acquire", "TryAcquire"}
                   THEN [@ EXCEPT !.pc = "done", !.ok = TRUE]
                 ELSE IF @.op = "Available"
                   THEN [@ EXCEPT !.pc = "done", !.ok = TRUE, !.avail = -TokenScale]
                 ELSE [@ EXCEPT !.pc = "inner"]]
            /\ tryLog' = IF lp[p].op = "TryAcquire" THEN Logged(TRUE) ELSE tryLog
            /\ UNCHANGED mu
       ELSE /\ mu = 0
            /\ mu' = p
            /\ lp' = [lp EXCEPT ![p].pc = "locked"]
            /\ UNCHANGED tryLog
  /\ UNCHANGED <<retryVars, regVars, streamVars, sharedVars, lcfg, lim, since, ncalls, noTime>>

\* what the caller does between r.mu.Lock() and r.mu.Unlock():
\* r.refill(), then the test of r.tokens
LCritical(p) ==
  /\ lp[p].pc = "locked"
  /\ mu = p
  /\ since' = 0
  /\ mu' = 0
  /\ LET l1 == refill(lim, since)
         c  == lp[p]
     IN  IF c.op = "Available"
           THEN /\ lim' = l1
                /\ lp' = [lp EXCEPT ![p] = [c EXCEPT !.pc = "done", !.ok = TRUE,
                                                     !.avail = l1.tokens]]
                /\ UNCHANGED tryLog
           ELSE IF AcquireGrants(l1, c)
             THEN /\ lim' = consume(l1)
                  /\ lp' = [lp EXCEPT ![p] =
                              [c EXCEPT !.pc = IF c.op \in ThrottledOps THEN "inner" ELSE "done",
                                        !.ok = TRUE,
                                        !.took = c.took + TruncDiv(l1.tokens - consume(l1).tokens,
                                                                   TokenScale)]]
                  /\ tryLog' = IF c.op = "TryAcquire" THEN Logged(TRUE) ELSE tryLog
             ELSE /\ lim' = l1
                  /\ IF c.op = "TryAcquire"
                       THEN /\ lp' = [lp EXCEPT ![p] = [c EXCEPT !.pc = "done", !.ok = FALSE]]
                            /\ tryLog' = Logged(FALSE)
                       ELSE /\ lp' = [lp EXCEPT ![p] =
                                        [c EXCEPT !.pc = "sleeping",
                                                  !.sleepLeft = waitTime(l1),
                                                  !.deadlineLeft = SelectDeadline(lim, c),
                                                  !.sleeps = IF c.sleeps < 2 THEN c.sleeps + 1 ELSE 2]]
                            /\ UNCHANGED tryLog
  /\ UNCHANGED <<retryVars, regVars, streamVars, sharedVars, lcfg, ncalls, noTime>>

\* case <-time.After(waitTime): try again
LWakeTimer(p) ==
  /\ lp[p].pc = "sleeping"
  /\ LimTimerReady(lp[p])
  /\ lp' = [lp EXCEPT ![p] = [@ EXCEPT !.pc = "enter", !.sleepLeft = 0]]
  /\ UNCHANGED <<retryVars, regVars, streamVars, sharedVars, lcfg, lim, since, mu, ncalls, tryLog, noTime>>

\* case <-ctx.Done(): return the rate-limit error
LWakeCtx(p) ==
  /\ lp[p].pc = "sleeping"
  /\ LimCtxDone(lp[p])
  /\ lp' = [lp EXCEPT ![p] = [@ EXCEPT !.pc = "done", !.ok = FALSE, !.sleepLeft = 0,
                                       !.err = RateLimitTimeoutError]]
  /\ UNCHANGED <<retryVars, regVars, streamVars, sharedVars, lcfg, lim, since, mu, ncalls, tryLog, noTime>>

\* return c.client.Chat(ctx, req) and the like, after Acquire returned nil
LInner(p) ==
  /\ lp[p].pc = "inner"
  /\ \E out \in WrappedOutcomes(lp[p].op) :
       lp' = [lp EXCEPT ![p] = [@ EXCEPT !.pc = "done", !.innerN = @ + 1,
                                         !.ok = (out.err = NoErr),
                                         !.val = out.val, !.err = out.err]]
  /\ UNCHANGED <<retryVars, regVars, streamVars, sharedVars, lcfg, lim, since, mu, ncalls, tryLog, noTime>>

\* the context the caller passed to Acquire is cancelled
LCancel(p) ==
  /\ lp[p].pc \in {"enter", "locked", "sleeping"}
  /\ Acquires(lp[p].op)
  /\ lim.state = "live"
  /\ ~lp[p].cancelled
  /\ lp' = [lp EXCEPT ![p].cancelled = TRUE]
  /\ UNCHANGED <<retryVars, regVars, streamVars, sharedVars, lcfg, lim, since, mu, ncalls, tryLog, noTime>>

\* what one tick does to the limiter's callers: time.Now() moves on, the
\* timers and deadlines of the sleeping callers come one tick closer
Elapse ==
  /\ since' = IF since < FullAfter(lim) THEN since + 1 ELSE since
  /\ noTime' = FALSE
  /\ tryLog' = <<>>
  /\ lp' = [p \in LProcs |->
              LET c == lp[p]
              IN  IF c.pc = "sleeping"
                    THEN [c EXCEPT
                            !.sleepLeft = @ - 1,
                            !.deadlineLeft = IF @ > 0 THEN @ - 1 ELSE @,
                            !.slept = IF c.deadlineLeft >= 0 /\ @ <= lim.waitTimeout
                                        THEN @ + 1 ELSE @]
                    ELSE c]

\* the select of caller c stays blocked: neither of its cases is ready
Asleep(c) == c.pc = "sleeping" /\ ~LimTimerReady(c) /\ ~LimCtxDone(c)

\* one tick of time passes. The code between two blocking points takes no
\* time: time passes while every caller is outside a call or asleep, and a
\* select with a ready case does not stay blocked
LTick ==
  /\ lim.state # "unbuilt"
  /\ \A p \in LProcs : lp[p].pc \in {"idle", "done"} \/ Asleep(lp[p])
  /\ Elapse
  /\ UNCHANGED <<retryVars, regVars, streamVars, sharedVars, lcfg, lim, mu, ncalls>>

NextLimiter ==
  \/ Build
  \/ \E p \in LProcs, op \in LimiterOps : LStart(p, op)
  \/ \E p \in LProcs : LEnter(p)
  \/ \E p \in LProcs : LCritical(p)
  \/ \E p \in LProcs : LWakeTimer(p)
  \/ \E p \in LProcs : LWakeCtx(p)
  \/ \E p \in LProcs : LCancel(p)
  \/ LTick

SpecLimiter == InitLimiterWith(LimConfigs) /\ [][NextLimiter]_vars

\* NewRateLimiter as a function of its configuration
SpecNewLimiter == InitLimiterWith(NewLimiterConfigs) /\ [][Build]_vars

NextLimitedClient ==
  \/ Build
  \/ \E p \in LProcs, op \in ThrottledOps : LStart(p, op)
  \/ \E p \in LProcs : LEnter(p)
  \/ \E p \in LProcs : LCritical(p)
  \/ \E p \in LProcs : LWakeTimer(p)
  \/ \E p \in LProcs : LWakeCtx(p)
  \/ \E p \in LProcs : LInner(p)
  \/ LTick

\* the callers' own contexts stay alive here: Acquire fails by its wait
\* timeout, through the same return as for a cancelled context
SpecLimitedClient == InitLimiterWith(ClientLimConfigs) /\ [][NextLimitedClient]_vars

NextAcquire ==
  \/ Build
  \/ \E p \in LProcs : LStart(p, "Acquire")
  \/ \E p \in LProcs : LEnter(p)
  \/ \E p \in LProcs : LCritical(p)
  \/ \E p \in LProcs : LWakeTimer(p)
  \/ \E p \in LProcs : LWakeCtx(p)
  \/ LTick

\* the callers' contexts are not cancelled here, as the claim on this
\* specification supposes. sync.Mutex hands the lock to a waiter that has waited long enough, the
\* runtime runs every runnable goroutine, timers fire and time passes
AcquireFairness ==
  /\ WF_vars(Build)
  /\ WF_vars(LTick)
  /\ \A p \in LProcs :
       /\ SF_vars(LEnter(p))
       /\ WF_vars(LCritical(p))
       /\ WF_vars(LWakeTimer(p) \/ LWakeCtx(p))

SpecAcquireFair ==
  InitLimiterWith(FairConfigs) /\ [][NextAcquire]_vars /\ AcquireFairness

\* the configurations NewRateLimiter answers with a nil limiter
DisabledConfigs ==
  [RequestsPerMinute : {-1, 0}, BurstSize : {0, 2}, WaitTimeout : {0, 3}]

\* every method of the limiter and of the client is called; a nil limiter
\* has no mutex to take and nothing to sleep on
NextDisabled ==
  \/ Build
  \/ \E p \in LProcs, op \in LimiterOps \cup ThrottledOps : LStart(p, op)
  \/ \E p \in LProcs : LEnter(p)
  \/ \E p \in LProcs : LInner(p)
  \/ LTick

SpecDisabledLimiter == InitLimiterWith(DisabledConfigs) /\ [][NextDisabled]_vars

\* ------------------------------------------------------------------------
\* Claims on the rate limiter
\* ------------------------------------------------------------------------

\* every call made so far is a TryAcquire
OnlyTryAcquire ==
  /\ \A p \in LProcs : lp[p].op \in {"none", "TryAcquire"}
  /\ Len(tryLog) + Cardinality({p \in LProcs : lp[p].pc \notin {"idle", "done"}}) = ncalls

\* C11: on a full bucket of capacity C, with no time elapsed, the first C
\* TryAcquire calls return true and every later one returns false.
C11_BurstThenRefused ==
  (lim.state = "live" /\ noTime /\ OnlyTryAcquire) =>
     \A i \in 1..Len(tryLog) : tryLog[i] = (i * TokenScale <= lim.maxTokens)

C11_Witness ==
  /\ lim.state = "live"
  /\ noTime
  /\ OnlyTryAcquire
  /\ lim.maxTokens = 2 * TokenScale
  /\ tryLog = <<TRUE, TRUE, FALSE>>

MinOf(a, b) == IF a < b THEN a ELSE b

\* caller p leaves the critical section in this step
Unlocks(p) == lp[p].pc = "locked" /\ lp'[p].pc # "locked"

\* C12: the token count stays within 0 and the capacity, and a refill after
\* an elapsed time T at rate R leaves min(capacity, tokens + T * R) in the
\* bucket (less the token the caller takes) and sets lastRefill to now.
C12_TokensBounded ==
  [][ /\ lim'.state = "live" => (0 <= lim'.tokens /\ lim'.tokens <= lim'.maxTokens)
      /\ \A p \in LProcs :
           Unlocks(p) =>
             /\ since' = 0
             /\ lim'.tokens + TokenScale * (lp'[p].took - lp[p].took)
                  = MinOf(lim.maxTokens, lim.tokens + since * lim.rpm) ]_vars

\* a token was taken from a bucket of one, time passed, and a later
\* Available found the bucket full again
C12_Witness ==
  /\ lim.state = "live"
  /\ lim.maxTokens = TokenScale
  /\ lim.tokens = lim.maxTokens
  /\ ~noTime
  /\ since = 0
  /\ ncalls = 2
  /\ \E p, q \in LProcs :
       /\ lp[p].pc = "done" /\ lp[p].op = "Acquire" /\ lp[p].took = 1
       /\ lp[q].pc = "done" /\ lp[q].op = "Available" /\ lp[q].avail = TokenScale

\* caller p's Acquire can no longer wait: its wait budget is used up
Expired(p) == lp[p].deadlineLeft = 0

\* C13: with a positive refill rate, every Acquire whose wait budget and
\* context do not expire eventually returns success, also when there are
\* more concurrent callers than tokens.
C13_AllAcquire ==
  \A p \in LProcs :
    (lp[p].pc = "enter") ~> (lp[p].pc = "done" /\ (lp[p].ok \/ Expired(p)))

\* more callers than tokens and no limit on the wait: all succeeded, and
\* one of them had to sleep for it
C13_Witness ==
  /\ lim.state = "live"
  /\ lim.waitTimeout = 0
  /\ lim.maxTokens < NProcs * TokenScale
  /\ \A p \in LProcs : lp[p].pc = "done" /\ lp[p].ok /\ ~lp[p].cancelled
  /\ \E p \in LProcs : lp[p].sleeps >= 1

\* C14: with WaitTimeout W > 0, an Acquire that gets no token fails with the
\* rate-limit error when W has elapsed: its sleeps add up to W at most, and
\* without a cancellation it does not fail before W.
C14_WaitTimeoutBoundsCall ==
  \A p \in LProcs :
    LET c == lp[p]
    IN  /\ (c.pc = "sleeping" /\ lim.waitTimeout > 0) =>
             /\ c.slept <= lim.waitTimeout
             /\ c.slept = lim.waitTimeout => LimCtxDone(c)
        /\ (c.pc = "done" /\ c.op = "Acquire" /\ ~c.ok /\ ~c.cancelled) =>
             /\ lim.waitTimeout > 0
             /\ c.slept = lim.waitTimeout
             /\ c.err = RateLimitTimeoutError

\* an Acquire that slept twice and failed when its budget was used up
C14_Witness ==
  \E p \in LProcs :
    /\ lp[p].pc = "done" /\ lp[p].op = "Acquire"
    /\ ~lp[p].ok /\ ~lp[p].cancelled
    /\ lp[p].sleeps = 2
    /\ lp[p].slept = lim.waitTimeout
    /\ lp[p].err = RateLimitTimeoutError

\* C15: an Acquire that fails because its caller cancelled returns an error
\* that differs from the one it returns when its wait budget elapses.
C15_CancelDistinguishable ==
  \A p \in LProcs :
    (lp[p].pc = "done" /\ lp[p].op = "Acquire" /\ ~lp[p].ok
       /\ lp[p].cancelled /\ lp[p].deadlineLeft # 0)
      => lp[p].err # RateLimitTimeoutError

\* C16: with WaitTimeout = 0 an Acquire that finds no token does not wait.
C16_ZeroTimeoutNoWait ==
  \A p \in LProcs :
    (lim.state = "live" /\ lim.waitTimeout = 0) => lp[p].pc # "sleeping"

\* C17: RequestsPerMinute <= 0 gives the nil limiter: Acquire returns nil
\* and TryAcquire true without taking a lock or sleeping, Available returns
\* -1, and the client's methods go straight to the wrapped client.
C17_DisabledLimiter ==
  lcfg.RequestsPerMinute <= 0 =>
    /\ lim.state \in {"unbuilt", "nil"}
    /\ mu = 0
    /\ \A p \in LProcs :
         LET c == lp[p]
         IN  /\ c.pc \notin {"locked", "sleeping"}
             /\ c.took = 0
             /\ (c.pc = "done" /\ c.op = "Acquire") => (c.ok /\ c.err = NoErr)
             /\ (c.pc = "done" /\ c.op = "TryAcquire") => c.ok
             /\ (c.pc = "done" /\ c.op = "Available") => c.avail = -TokenScale
             /\ (c.pc = "done" /\ c.op \in ThrottledOps) => c.innerN = 1

C17_Witness ==
  /\ lim.state = "nil"
  /\ ~noTime
  /\ \E p, q \in LProcs :
       /\ lp[p].pc = "done" /\ lp[p].op = "Available" /\ lp[p].avail = -TokenScale
       /\ lp[q].pc = "done" /\ lp[q].op = "Embed" /\ lp[q].innerN = 1

\* C18: for RequestsPerMinute > 0 the limiter starts full; its capacity is
\* BurstSize when that is positive and max(1, RequestsPerMinute div 10)
\* otherwise, and it refills RequestsPerMinute / 60 tokens per second.
C18_Capacity ==
  lim.state = "live" =>
    /\ lcfg.RequestsPerMinute > 0
    /\ lim.rpm = lcfg.RequestsPerMinute
    /\ lim.tokens = lim.maxTokens
    /\ lim.maxTokens =
         TokenScale * (IF lcfg.BurstSize > 0 THEN lcfg.BurstSize
                       ELSE IF lcfg.RequestsPerMinute \div 10 > 1
                              THEN lcfg.RequestsPerMinute \div 10
                              ELSE 1)

\* the floor of one token: 7 div 10 = 0
C18_Witness ==
  /\ lim.state = "live"
  /\ lcfg.BurstSize <= 0
  /\ lcfg.RequestsPerMinute = 7
  /\ lim.maxTokens = TokenScale

\* what a finished call of the client went through: Acquire failed and the
\* wrapped operation was not invoked, or tokens were taken and it was
\* invoked once
AcquireFailed(c) ==
  c.innerN = 0 /\ c.took = 0 /\ ~c.ok /\ c.err = RateLimitTimeoutError

Forwarded(c, tokens) ==
  /\ c.innerN = 1
  /\ c.took = tokens
  /\ \E o \in WrappedOutcomes(c.op) :
       c.val = o.val /\ c.err = o.err /\ c.ok = (o.err = NoErr)

\* C19 as stated: every call of the client that was forwarded took exactly
\* one token.
C19_OneTokenPerCall ==
  \A p \in LProcs :
    (lp[p].pc = "done" /\ lp[p].op \in ThrottledOps) =>
      (AcquireFailed(lp[p]) \/ Forwarded(lp[p], 1))

\* C19: every call of the client either fails in Acquire, with the wrapped
\* operation not invoked, or is forwarded exactly once with its outcome
\* returned as it is, after taking exactly one token when the limiter is
\* enabled and none when it is disabled.
C19_OneTokenWhenEnabled ==
  \A p \in LProcs :
    /\ (lp[p].pc = "done" /\ lp[p].op \in ThrottledOps) =>
         \/ AcquireFailed(lp[p])
         \/ Forwarded(lp[p], IF lim.state = "live" THEN 1 ELSE 0)
    /\ (lp[p].pc = "inner") =>
         (lp[p].innerN = 0 /\ lp[p].took = (IF lim.state = "live" THEN 1 ELSE 0))

\* one call failed in Acquire, another was forwarded and returned the
\* wrapped client's error
C19_Witness ==
  /\ lim.state = "live"
  /\ \E p, q \in LProcs :
       /\ lp[p].pc = "done" /\ lp[p].op \in ThrottledOps /\ AcquireFailed(lp[p])
       /\ lp[q].pc = "done" /\ lp[q].op \in ThrottledOps
       /\ lp[q].innerN = 1 /\ lp[q].took = 1 /\ ~lp[q].ok

\* ========================================================================
\* The provider registry: Register, New, Providers
\*
\* A factory is named by the number of the Register call that passed it, so
\* no two registrations pass the same factory; 0 stands for no factory.
\* ========================================================================

ProviderIDs == {"alpha", "beta"}

\* a caller that is in no call
IdleRegCall ==
  [op |-> "none", pc |-> "idle", id |-> "alpha", factory |-> 0, ok |-> FALSE,
   seen |-> {}, invoked |-> 0, known |-> {}, client |-> 0, err |-> NoErr,
   ctor |-> [client |-> 0, err |-> NoErr], panicked |-> FALSE, mustClient |-> 0]

\* New and the function that wraps it
NewOps == {"New", "MustNew"}

\* the provider ids as text
IDText(id) ==
  IF id = "alpha" THEN <<97,108,112,104,97>> ELSE <<98,101,116,97>>

\* the orders in which a range over the registry map may visit the ids in S
Orderings(S) ==
  { o \in [1..Cardinality(S) -> S] : \A i, j \in 1..Cardinality(S) : o[i] = o[j] => i = j }

\* %v of a []string: the elements, separated by blanks, in brackets
RECURSIVE JoinIDs(_)
JoinIDs(o) ==
  IF Len(o) = 0 THEN <<>>
  ELSE IF Len(o) = 1 THEN IDText(o[1])
  ELSE IDText(o[1]) \o <<32>> \o JoinIDs(Tail(o))

MsgUnknownProvider == <<117,110,107,110,111,119,110,32,112,114,111,118,105,100,101,114,58,32>>
MsgAvailable == <<32,40,97,118,97,105,108,97,98,108,101,58,32>>

\* fmt.Errorf("unknown provider: %s (available: %v)", providerID, Providers())
UnknownProviderError(id, o) ==
  PlainError(MsgUnknownProvider \o IDText(id) \o MsgAvailable
               \o <<91>> \o JoinIDs(o) \o <<93, 41>>)

\* what the factory stored by Register call f may return: a client of its
\* own, or an error
FactoryOutcomes(f) ==
  { [client |-> f, err |-> NoErr],
    [client |-> 0, err |-> APIError("authentication", FALSE, 0, MsgUnauthorized)] }

\* a New that swallows the error of the factory
NewReturn_dropError(out) == [client |-> out.client, err |-> NoErr]

\* return factory(opts...)
NewReturn(out) == out

\* a MustNew that never panics
MustNewPanics_never(e) == FALSE

\* if err != nil { panic(err) }
MustNewPanics(e) == e # NoErr

\* a store that keeps the factory an earlier Register stored
registryStore_keepFirst(reg, id, f) ==
  IF reg[id] # 0 THEN reg ELSE [reg EXCEPT ![id] = f]

\* registry[providerID] = factory
registryStore(reg, id, f) == [reg EXCEPT ![id] = f]

\* the identifiers Providers() returns
Providers(reg) == {i \in ProviderIDs : reg[i] # 0}

\* the factories stored under id, in the order they were stored
StoredUnder(id) == SelectSeq(writes, LAMBDA w : w.id = id)

InitRegistry ==
  /\ RetryInert
  /\ LimInert
  /\ StreamInert
  /\ SharedInert
  /\ registry = [i \in ProviderIDs |-> 0]
  /\ registryMu = [writer |-> 0, readers |-> {}]
  /\ rp = [p \in LProcs |-> IdleRegCall]
  /\ rcalls = 0
  /\ writes = <<>>
  /\ regDone = {}

\* caller p calls Register(id, factory) with a factory of its own
RegisterStart(p, id) ==
  /\ rp[p].pc \in {"idle", "done"}
  /\ rcalls < MaxCalls
  /\ rcalls' = rcalls + 1
  /\ rp' = [rp EXCEPT ![p] = [IdleRegCall EXCEPT !.op = "Register", !.pc = "lock",
                                                 !.id = id, !.factory = rcalls + 1]]
  /\ UNCHANGED <<retryVars, limVars, streamVars, sharedVars, registry, registryMu, writes, regDone>>

\* registryMu.Lock()
RegisterLock(p) ==
  /\ rp[p].op = "Register"
  /\ rp[p].pc = "lock"
  /\ registryMu.writer = 0
  /\ registryMu.readers = {}
  /\ registryMu' = [registryMu EXCEPT !.writer = p]
  /\ rp' = [rp EXCEPT ![p].pc = "locked"]
  /\ UNCHANGED <<retryVars, limVars, streamVars, sharedVars, registry, rcalls, writes, regDone>>

\* registry[providerID] = factory, then the deferred Unlock and the return
RegisterStore(p) ==
  /\ rp[p].op = "Register"
  /\ rp[p].pc = "locked"
  /\ registry' = registryStore(registry, rp[p].id, rp[p].factory)
  /\ registryMu' = [registryMu EXCEPT !.writer = 0]
  /\ writes' = Append(writes, [id |-> rp[p].id, factory |-> rp[p].factory])
  /\ regDone' = regDone \cup {rp[p].factory}
  /\ rp' = [rp EXCEPT ![p].pc = "done"]
  /\ UNCHANGED <<retryVars, limVars, streamVars, sharedVars, rcalls>>

\* caller p calls New(id), directly or through MustNew(id)
NewStart(p, op, id) ==
  /\ rp[p].pc \in {"idle", "done"}
  /\ rcalls < MaxCalls
  /\ rcalls' = rcalls + 1
  /\ rp' = [rp EXCEPT ![p] = [IdleRegCall EXCEPT !.op = op, !.pc = "lock", !.id = id]]
  /\ UNCHANGED <<retryVars, limVars, streamVars, sharedVars, registry, registryMu, writes, regDone>>

\* registryMu.RLock()
NewRLock(p) ==
  /\ rp[p].op \in NewOps
  /\ rp[p].pc = "lock"
  /\ registryMu.writer = 0
  /\ registryMu' = [registryMu EXCEPT !.readers = @ \cup {p}]
  /\ rp' = [rp EXCEPT ![p].pc = "locked"]
  /\ UNCHANGED <<retryVars, limVars, streamVars, sharedVars, registry, rcalls, writes, regDone>>

\* the factories whose Register(id, ...) has returned
DoneUnder(id) == {f \in regDone : \E i \in 1..Len(writes) : writes[i] = [id |-> id, factory |-> f]}

\* the read lock stays with the caller when New goes on
RUnlock_held(m, p) == m

\* registryMu.RUnlock()
RUnlock(m, p) == [m EXCEPT !.readers = @ \ {p}]

\* factory, ok := registry[providerID]; registryMu.RUnlock()
NewLookup(p) ==
  /\ rp[p].op \in NewOps
  /\ rp[p].pc = "locked"
  /\ registryMu' = RUnlock(registryMu, p)
  /\ LET c == rp[p]
     IN  rp' = [rp EXCEPT ![p] =
                  [c EXCEPT !.factory = registry[c.id],
                            !.ok = registry[c.id] # 0,
                            !.seen = DoneUnder(c.id),
                            !.pc = IF registry[c.id] # 0 THEN "found" ELSE "unknown"]]
  /\ UNCHANGED <<retryVars, limVars, streamVars, sharedVars, registry, rcalls, writes, regDone>>

\* MustNew after its New returned (client, err): if err != nil { panic(err) };
\* return llm. A call of New itself is left as it is
AfterNew(c) ==
  IF c.op = "MustNew"
    THEN [c EXCEPT !.panicked = MustNewPanics(c.err),
                   !.mustClient = IF MustNewPanics(c.err) THEN 0 ELSE c.client,
                   !.pc = "done"]
    ELSE [c EXCEPT !.pc = "done"]

\* return factory(opts...)
NewFactory(p) ==
  /\ rp[p].op \in NewOps
  /\ rp[p].pc = "found"
  /\ \E out \in FactoryOutcomes(rp[p].factory) :
       rp' = [rp EXCEPT ![p] = AfterNew([@ EXCEPT !.invoked = rp[p].factory,
                                                  !.ctor = out,
                                                  !.client = NewReturn(out).client,
                                                  !.err = NewReturn(out).err])]
  /\ UNCHANGED <<retryVars, limVars, streamVars, sharedVars, registry, registryMu, rcalls, writes, regDone>>

\* return nil, fmt.Errorf("unknown provider: %s (available: %v)", id, Providers())
NewUnknown(p) ==
  /\ rp[p].op \in NewOps
  /\ rp[p].pc = "unknown"
  /\ registryMu.writer = 0
  /\ \E o \in Orderings(Providers(registry)) :
       rp' = [rp EXCEPT ![p] = AfterNew([@ EXCEPT !.known = Providers(registry),
                                                  !.err = UnknownProviderError(rp[p].id, o)])]
  /\ UNCHANGED <<retryVars, limVars, streamVars, sharedVars, registry, registryMu, rcalls, writes, regDone>>

NextRegistry ==
  \/ \E p \in LProcs, id \in ProviderIDs : RegisterStart(p, id)
  \/ \E p \in LProcs : RegisterLock(p)
  \/ \E p \in LProcs : RegisterStore(p)
  \/ \E p \in LProcs, op \in NewOps, id \in ProviderIDs : NewStart(p, op, id)
  \/ \E p \in LProcs : NewRLock(p)
  \/ \E p \in LProcs : NewLookup(p)
  \/ \E p \in LProcs : NewFactory(p)
  \/ \E p \in LProcs : NewUnknown(p)

SpecRegistry == InitRegistry /\ [][NextRegistry]_vars

\* ------------------------------------------------------------------------
\* Claims on the registry
\* ------------------------------------------------------------------------

\* the place of the store of factory f under id in the order of the stores
StorePos(id, f) ==
  CHOOSE i \in 1..Len(writes) : writes[i] = [id |-> id, factory |-> f]

\* C20: the registry holds for every id the factory stored last, and New(id)
\* invokes a factory that was registered under id and that no Register
\* which had returned before New's lookup has overwritten; it finds one
\* whenever such a Register had returned.
C20_LastWriteWins ==
  /\ \A id \in ProviderIDs :
       LET st == StoredUnder(id)
       IN  registry[id] = IF st = <<>> THEN 0 ELSE st[Len(st)].factory
  /\ \A p \in LProcs :
       LET c == rp[p]
       IN  (c.op = "New" /\ c.pc \in {"found", "unknown", "done"}) =>
             /\ c.seen # {} => c.ok
             /\ c.ok =>
                  /\ \E i \in 1..Len(writes) : writes[i] = [id |-> c.id, factory |-> c.factory]
                  /\ \A f \in c.seen : StorePos(c.id, f) <= StorePos(c.id, c.factory)
             /\ (c.pc = "done" /\ c.ok) => c.invoked = c.factory
             /\ ~c.ok => c.invoked = 0

\* two Registers of one id returned, then New invoked the second factory
C20_Witness ==
  \E p \in LProcs :
    /\ rp[p].op = "New" /\ rp[p].pc = "done"
    /\ rp[p].seen = {1, 2}
    /\ rp[p].invoked = 2

\* caller p takes a step of New in this step
NewSteps(p) == rp[p].op \in NewOps /\ rp[p].pc # "done" /\ rp'[p] # rp[p]

\* New returns to its caller in this step
NewReturns(p) == NewSteps(p) /\ rp'[p].pc = "done"

\* C21: New never changes the registry. For an id that is not registered it
\* invokes no factory and returns a nil client and the "unknown provider"
\* error, whose text names the id and lists the ids registered when the
\* error is made; for a registered id it returns the pair its factory
\* returned.
C21_NewResult ==
  [][ \A p \in LProcs :
        /\ NewSteps(p) => registry' = registry
        /\ NewReturns(p) =>
             LET c == rp'[p]
             IN  IF c.ok
                   THEN /\ c.invoked = c.factory
                        /\ c.ctor \in FactoryOutcomes(c.factory)
                        /\ c.client = c.ctor.client
                        /\ c.err = c.ctor.err
                   ELSE /\ c.invoked = 0
                        /\ c.client = 0
                        /\ c.known = Providers(registry)
                        /\ \E o \in Orderings(c.known) :
                             c.err = UnknownProviderError(c.id, o)
                        /\ c.err.Message[1] = 117
                        /\ contains(c.err.Message, IDText(c.id))
                        /\ \A i \in c.known : contains(c.err.Message, IDText(i)) ]_vars

\* New("alpha") found nothing while "beta" was registered, and a New whose
\* factory failed returned that error
C21_Witness ==
  \E p, q \in LProcs :
    /\ rp[p].op = "New" /\ rp[p].pc = "done" /\ ~rp[p].ok
    /\ rp[p].id = "alpha" /\ rp[p].known = {"beta"}
    /\ rp[q].op = "New" /\ rp[q].pc = "done" /\ rp[q].ok
    /\ rp[q].err # NoErr /\ rp[q].client = 0

\* C22: the error New returns for an unknown id is an APIError.
C22_StructuredErrors ==
  \A p \in LProcs :
    (rp[p].op \in NewOps /\ rp[p].pc = "done" /\ ~rp[p].ok)
      => rp[p].err.kind = "api"

\* C23: MustNew returns the client New returned when New returned no error,
\* and panics exactly when New returned one.
C23_MustNew ==
  \A p \in LProcs :
    (rp[p].op = "MustNew" /\ rp[p].pc = "done") =>
      /\ rp[p].panicked = (rp[p].err # NoErr)
      /\ ~rp[p].panicked => (rp[p].mustClient = rp[p].client /\ rp[p].client # 0)

\* one MustNew panicked on an unknown id, one on the error of a factory
C23_Witness ==
  \E p, q \in LProcs :
    /\ rp[p].op = "MustNew" /\ rp[p].pc = "done" /\ rp[p].panicked /\ ~rp[p].ok
    /\ rp[q].op = "MustNew" /\ rp[q].pc = "done" /\ rp[q].panicked /\ rp[q].ok


\* ------------------------------------------------------------------------
\* StreamReader: the channel, Next, Err and Collect
\* ------------------------------------------------------------------------

\* chunks sent into one channel
MaxChunks == 3
\* Next calls one caller makes
MaxNext == 5
\* the largest channel capacity: make(chan StreamChunk, c) for c in 0..MaxCap
MaxCap == 2

\* a StreamChunk; Provider and Model are set like ID and are left out
StreamChunk(id, content, calls, finish, usage, err) ==
  [ID |-> id, Content |-> content, ToolCalls |-> calls, FinishReason |-> finish,
   Usage |-> usage, Error |-> err]

\* the zero value StreamChunk{}
ZeroChunk == StreamChunk(0, <<>>, <<>>, "", 0, NoErr)

\* Content "A"
ChunkA == StreamChunk(1, <<65>>, <<>>, "", 0, NoErr)
\* Content "B" and one tool call
ChunkB == StreamChunk(1, <<66>>, <<"call_1">>, "", 0, NoErr)
\* the chunk with the finish reason and the usage
ChunkStop == StreamChunk(1, <<>>, <<>>, "stop", 7, NoErr)
\* StreamChunk{Error: err}
ErrorChunk(err) == StreamChunk(0, <<>>, <<>>, "", 0, err)

ErrReset == PlainError(MsgConnReset)
\* "unexpected EOF"
ErrEOF == PlainError(<<117,110,101,120,112,101,99,116,101,100,32,69,79,70>>)
\* "invalid character"
ErrJSON == PlainError(<<105,110,118,97,108,105,100,32,99,104,97,114,97,99,116,101,114>>)
ErrCanceled == PlainError(MsgCanceled)

\* the chunks a producer of the StreamReader model sends
Chunks == {ChunkA, ChunkB, ChunkStop, ErrorChunk(ErrReset), ErrorChunk(ErrEOF)}

\* make(chan StreamChunk, c)
MakeChan(c) == [buf |-> <<>>, cap |-> c, closed |-> FALSE]

\* a send that puts the chunk in front of the waiting ones
chSend_lifo(c, x) == [c EXCEPT !.buf = <<x>> \o @]

\* ch <- x, once the send can proceed
chSend(c, x) == [c EXCEPT !.buf = Append(@, x)]

\* a send that never waits
CanSend_always == TRUE

\* ch <- x can proceed: a free buffer slot, or a receiver waiting on an
\* unbuffered channel
CanSend ==
  \/ Len(ch.buf) < ch.cap
  \/ ch.cap = 0 /\ ch.buf = <<>> /\ consumer.pc = "recv"

\* <-ch can proceed: a chunk is there, or the channel is closed
CanRecv == ch.buf # <<>> \/ ch.closed

\* chunk, ok := <-ch
chRecv(c) ==
  IF c.buf # <<>> THEN [chunk |-> Head(c.buf), ok |-> TRUE]
  ELSE [chunk |-> ZeroChunk, ok |-> FALSE]

\* NewStreamReader(ch)
NewStreamReader == [err |-> NoErr, closed |-> FALSE]

\* r.Err()
Err(r) == r.err

\* a *StreamChunk: <<>> is nil
Nil == <<>>

\* Next of a reader whose closed flag is set
NextClosed(r) == [r |-> r, chunk |-> Nil, ok |-> FALSE]

\* a Next that hands the chunk carrying the error to the caller
NextOn_yieldError(r, rcv) ==
  IF ~rcv.ok THEN [r |-> [r EXCEPT !.closed = TRUE], chunk |-> Nil, ok |-> FALSE]
  ELSE IF rcv.chunk.Error # NoErr
    THEN [r |-> [r EXCEPT !.err = rcv.chunk.Error], chunk |-> <<rcv.chunk>>, ok |-> TRUE]
  ELSE [r |-> r, chunk |-> <<rcv.chunk>>, ok |-> TRUE]

\* Next after chunk, ok := <-r.ch returned rcv
NextOn(r, rcv) ==
  IF ~rcv.ok THEN [r |-> [r EXCEPT !.closed = TRUE], chunk |-> Nil, ok |-> FALSE]
  ELSE IF rcv.chunk.Error # NoErr
    THEN [r |-> [r EXCEPT !.err = rcv.chunk.Error], chunk |-> Nil, ok |-> FALSE]
  ELSE [r |-> r, chunk |-> <<rcv.chunk>>, ok |-> TRUE]

\* Choice{Index: 0, Message: Message{Role: RoleAssistant, Content, ToolCalls}, FinishReason}
Choice(content, toolCalls, finish) ==
  [Content |-> content, ToolCalls |-> toolCalls, FinishReason |-> finish]

\* the locals of Collect before its loop
NewCollect ==
  [content |-> <<>>, toolCalls |-> <<>>,
   response |-> [ID |-> 0, Choices |-> <<>>, Usage |-> 0]]

\* the body of Collect's loop for one chunk
collectChunk(a, chunk) ==
  LET content == a.content \o chunk.Content
      toolCalls == a.toolCalls \o chunk.ToolCalls
  IN  [content |-> content, toolCalls |-> toolCalls,
       response |->
         [ID |-> chunk.ID,
          Choices |-> IF chunk.FinishReason # ""
                        THEN <<Choice(content, toolCalls, chunk.FinishReason)>>
                        ELSE a.response.Choices,
          Usage |-> chunk.Usage]]

\* a Collect that hands out what it gathered together with the error
collectReturn_keepPartial(a, r) ==
  IF a.response.Choices = <<>>
    THEN [response |-> <<[a.response EXCEPT
                            !.Choices = <<Choice(a.content, a.toolCalls, "")>>]>>,
          err |-> r.err]
    ELSE [response |-> <<a.response>>, err |-> r.err]

\* what Collect returns after its loop: (*ChatResponse, error), <<>> is nil
collectReturn(a, r) ==
  IF r.err # NoErr THEN [response |-> Nil, err |-> r.err]
  ELSE IF a.response.Choices = <<>>
    THEN [response |-> <<[a.response EXCEPT
                            !.Choices = <<Choice(a.content, a.toolCalls, "")>>]>>,
          err |-> NoErr]
    ELSE [response |-> <<a.response>>, err |-> NoErr]

\* a caller that calls Next repeatedly ("next") or Collect once ("collect")
NewConsumer(mode) ==
  [pc |-> IF mode = "next" THEN "idle" ELSE "start", mode |-> mode, calls |-> 0,
   acc |-> NewCollect, ret |-> [response |-> Nil, err |-> NoErr]]

\* a producer that may send any chunk at any time and close the channel once
InitStreamReader ==
  /\ RetryInert
  /\ LimInert
  /\ RegInert
  /\ SharedInert
  /\ ch \in {MakeChan(c) : c \in 0..MaxCap}
  /\ body = [lines |-> <<>>, end |-> "eof", closed |-> FALSE]
  /\ producer = [pc |-> "run", chunk |-> ZeroChunk, kind |-> "any"]
  /\ reader = NewStreamReader
  /\ consumer \in {NewConsumer(m) : m \in {"next", "collect"}}
  /\ streamCtx = FALSE
  /\ pushed = <<>>
  /\ yields = <<>>

\* ch <- c by the producer
Push(c) ==
  /\ producer.pc = "run"
  /\ Len(pushed) < MaxChunks
  /\ CanSend
  /\ ch' = chSend(ch, c)
  /\ pushed' = Append(pushed, c)
  /\ UNCHANGED <<retryVars, limVars, regVars, sharedVars,
                 body, producer, reader, consumer, streamCtx, yields>>

\* close(ch) by the producer, which then ends
ProducerClose ==
  /\ producer.pc = "run"
  /\ ch' = [ch EXCEPT !.closed = TRUE]
  /\ producer' = [producer EXCEPT !.pc = "done"]
  /\ UNCHANGED <<retryVars, limVars, regVars, sharedVars,
                 body, reader, consumer, streamCtx, pushed, yields>>

\* the caller may call Next now
MayCallNext ==
  \/ consumer.pc = "idle" /\ consumer.calls < MaxNext
  \/ consumer.pc = "loop"

\* the caller gets res from Next; inside Collect the loop goes on with it
Deliver(res) ==
  /\ reader' = res.r
  /\ yields' = Append(yields, [chunk |-> res.chunk, ok |-> res.ok, err |-> Err(res.r)])
  /\ consumer' =
       IF consumer.mode = "next"
         THEN [consumer EXCEPT !.pc = "idle", !.calls = @ + 1]
       ELSE IF res.ok
         THEN [consumer EXCEPT !.pc = "loop", !.calls = @ + 1,
                               !.acc = collectChunk(@, res.chunk[1])]
       ELSE [consumer EXCEPT !.pc = "returned", !.calls = @ + 1,
                             !.ret = collectReturn(consumer.acc, res.r)]

\* r.Collect() is called
CollectStart ==
  /\ consumer.pc = "start"
  /\ consumer' = [consumer EXCEPT !.pc = "loop", !.acc = NewCollect]
  /\ UNCHANGED <<retryVars, limVars, regVars, sharedVars,
                 ch, body, producer, reader, streamCtx, pushed, yields>>

\* r.Next() with r.closed set
NextReturnsClosed ==
  /\ MayCallNext
  /\ reader.closed
  /\ Deliver(NextClosed(reader))
  /\ UNCHANGED <<retryVars, limVars, regVars, sharedVars,
                 ch, body, producer, streamCtx, pushed>>

\* r.Next() reaches chunk, ok := <-r.ch
NextCall ==
  /\ MayCallNext
  /\ ~reader.closed
  /\ consumer' = [consumer EXCEPT !.pc = "recv"]
  /\ UNCHANGED <<retryVars, limVars, regVars, sharedVars,
                 ch, body, producer, reader, streamCtx, pushed, yields>>

\* the receive returns and Next with it
NextRecv ==
  /\ consumer.pc = "recv"
  /\ CanRecv
  /\ ch' = IF ch.buf # <<>> THEN [ch EXCEPT !.buf = Tail(@)] ELSE ch
  /\ Deliver(NextOn(reader, chRecv(ch)))
  /\ UNCHANGED <<retryVars, limVars, regVars, sharedVars,
                 body, producer, streamCtx, pushed>>

NextStreamReader ==
  \/ \E c \in Chunks : Push(c)
  \/ ProducerClose
  \/ CollectStart
  \/ NextReturnsClosed
  \/ NextCall
  \/ NextRecv

SpecStreamReader == InitStreamReader /\ [][NextStreamReader]_vars


\* ------------------------------------------------------------------------
\* Claims on the StreamReader
\* ------------------------------------------------------------------------

\* no chunk of s carries an error
ErrorFree(s) == \A i \in DOMAIN s : s[i].Error = NoErr

\* what the i-th Next call returned when it yielded the chunk c
Yielded(c) == [chunk |-> <<c>>, ok |-> TRUE, err |-> NoErr]

\* what a Next call returned when it yielded nothing and Err() is e after it
Ended(e) == [chunk |-> Nil, ok |-> FALSE, err |-> e]

\* C24: while every chunk the producer has sent is free of an error, the i-th
\* Next call yields the i-th chunk sent with ok = true, a Next call beyond the
\* chunks sent returns (nil, false) and only once the channel is closed, and
\* Err() is nil after every call.
C24_CleanStream ==
  ErrorFree(pushed) =>
    \A i \in DOMAIN yields :
      IF i <= Len(pushed) THEN yields[i] = Yielded(pushed[i])
      ELSE yields[i] = Ended(NoErr) /\ ch.closed

\* A, B and the finishing chunk were sent, the channel was closed, and five Next
\* calls returned: three chunks and (nil, false) twice
C24_Witness ==
  /\ consumer.mode = "next"
  /\ pushed = <<ChunkA, ChunkB, ChunkStop>>
  /\ ch.closed
  /\ Len(yields) = 5
  /\ yields[3] = Yielded(ChunkStop)
  /\ yields[5] = Ended(NoErr)

\* C25: while the producer has sent error-free chunks f1..fn and then one chunk
\* carrying the error e, the first n Next calls yield f1..fn in order, and
\* every Next call after them returns (nil, false) with Err() = e: the chunk
\* carrying the error is not handed to the caller.
C25_ErrorStream ==
  \A n \in 0..MaxChunks :
    (/\ Len(pushed) = n + 1
     /\ ErrorFree(SubSeq(pushed, 1, n))
     /\ pushed[n + 1].Error # NoErr) =>
      \A i \in DOMAIN yields :
        IF i <= n THEN yields[i] = Yielded(pushed[i])
        ELSE yields[i] = Ended(pushed[n + 1].Error)

\* A and then a chunk carrying an error were sent; Next yielded A, then
\* (nil, false), and after the close (nil, false) again, Err() being the error
C25_Witness ==
  /\ consumer.mode = "next"
  /\ pushed = <<ChunkA, ErrorChunk(ErrReset)>>
  /\ ch.closed
  /\ Len(yields) = 3
  /\ yields[1] = Yielded(ChunkA)
  /\ yields[2] = Ended(ErrReset)
  /\ yields[3] = Ended(ErrReset)
  /\ Err(reader) = ErrReset

\* C26: once a Next call has returned (nil, false), every later Next call
\* returns (nil, false) too and Err() is after it what it was after that call.
C26_TerminalStates ==
  \A i, j \in DOMAIN yields :
    (i < j /\ ~yields[i].ok) =>
      /\ ~yields[j].ok
      /\ yields[j].chunk = Nil
      /\ yields[j].err = yields[i].err

RECURSIVE AllContent(_)
\* the Content of the chunks of s, concatenated in order
AllContent(s) == IF s = <<>> THEN <<>> ELSE Head(s).Content \o AllContent(Tail(s))

RECURSIVE AllToolCalls(_)
\* the ToolCalls of the chunks of s, concatenated in order
AllToolCalls(s) == IF s = <<>> THEN <<>> ELSE Head(s).ToolCalls \o AllToolCalls(Tail(s))

\* C27: when Collect has returned and no chunk sent carries an error, it
\* returned a response and a nil error, and the message of the response holds
\* the Content of all chunks sent and the ToolCalls of all chunks sent, each
\* concatenated in the order of sending.
C27_CollectConcatenates ==
  (consumer.pc = "returned" /\ ErrorFree(pushed)) =>
    /\ consumer.ret.err = NoErr
    /\ consumer.ret.response # Nil
    /\ Len(consumer.ret.response[1].Choices) = 1
    /\ consumer.ret.response[1].Choices[1].Content = AllContent(pushed)
    /\ consumer.ret.response[1].Choices[1].ToolCalls = AllToolCalls(pushed)

\* the first chunk of s that carries an error
FirstError(s) ==
  s[CHOOSE i \in DOMAIN s : s[i].Error # NoErr /\ ErrorFree(SubSeq(s, 1, i - 1))].Error

\* C28: when Collect has returned and a chunk sent carries an error, Collect
\* returned a nil response and the error of the first such chunk.
C28_CollectFails ==
  (consumer.pc = "returned" /\ ~ErrorFree(pushed)) =>
    consumer.ret = [response |-> Nil, err |-> FirstError(pushed)]

\* Collect returned the error of the third chunk although the second chunk
\* carried the finish reason
C28_Witness ==
  /\ consumer.pc = "returned"
  /\ pushed = <<ChunkB, ChunkStop, ErrorChunk(ErrEOF)>>
  /\ consumer.acc.response.Choices # <<>>
  /\ consumer.ret = [response |-> Nil, err |-> ErrEOF]


\* ------------------------------------------------------------------------
\* The producers: readStream and processStream
\* ------------------------------------------------------------------------

\* lines the response body delivers before it ends
MaxLines == 2
\* the buffer of make(chan gollmx.StreamChunk, 100), scaled down
StreamBuf == 1

\* a line of the body: an event that becomes a chunk, an event that does not
\* parse, the "[DONE]" marker
Lines == {"data", "bad", "done"}

\* the bodies of the model: their lines, and how reading ends after the last line
Bodies ==
  {[lines |-> l, end |-> e, closed |-> FALSE] :
     l \in UNION {[1..n -> Lines] : n \in 0..MaxLines}, e \in {"eof", "err"}}

\* readStream feeds an unbuffered channel, processStream a buffered one
ProducerKinds == {"readStream", "processStream"}
ChanOf(kind) == IF kind = "readStream" THEN MakeChan(0) ELSE MakeChan(StreamBuf)

\* ChatStream has returned NewStreamReader(ch) and started go readStream(...) /
\* go processStream(...)
InitStream ==
  /\ RetryInert
  /\ LimInert
  /\ RegInert
  /\ SharedInert
  /\ producer \in {[pc |-> "scan", chunk |-> ZeroChunk, kind |-> k] : k \in ProducerKinds}
  /\ ch = ChanOf(producer.kind)
  /\ body \in Bodies
  /\ reader = NewStreamReader
  /\ consumer = NewConsumer("next")
  /\ streamCtx = FALSE
  /\ pushed = <<>>
  /\ yields = <<>>

\* the producer after it read the line: readStream sends an error chunk for an
\* event that does not parse and returns, processStream skips the event
OnLine(p, line) ==
  IF line = "data" THEN [p EXCEPT !.pc = "send", !.chunk = ChunkA]
  ELSE IF line = "done" THEN [p EXCEPT !.pc = "return"]
  ELSE IF p.kind = "readStream"
    THEN [p EXCEPT !.pc = "sendErr", !.chunk = ErrorChunk(ErrJSON)]
  ELSE p

\* scanner.Scan() / reader.ReadString('\n'): the next line, the end of the
\* body, or a failed read; a read of the body of a cancelled request can fail
Scan ==
  /\ producer.pc = "scan"
  /\ \/ /\ body.lines # <<>>
        /\ body' = [body EXCEPT !.lines = Tail(@)]
        /\ producer' = OnLine(producer, Head(body.lines))
     \/ /\ streamCtx \/ (body.lines = <<>> /\ body.end = "err")
        /\ producer' = [producer EXCEPT
                          !.pc = "sendErr",
                          !.chunk = ErrorChunk(IF streamCtx THEN ErrCanceled ELSE ErrReset)]
        /\ UNCHANGED body
     \/ /\ body.lines = <<>>
        /\ body.end = "eof"
        /\ producer' = [producer EXCEPT !.pc = "return"]
        /\ UNCHANGED body
  /\ UNCHANGED <<retryVars, limVars, regVars, sharedVars,
                 ch, reader, consumer, streamCtx, pushed, yields>>

\* ch <- chunk: the producer waits until the send can proceed; after an error
\* chunk it returns
Send ==
  /\ producer.pc \in {"send", "sendErr"}
  /\ CanSend
  /\ ch' = chSend(ch, producer.chunk)
  /\ pushed' = Append(pushed, producer.chunk)
  /\ producer' = [producer EXCEPT !.pc = IF @ = "send" THEN "scan" ELSE "return"]
  /\ UNCHANGED <<retryVars, limVars, regVars, sharedVars,
                 body, reader, consumer, streamCtx, yields>>

\* the producer returns: defer body.Close(), then defer close(ch)
ProducerReturn ==
  /\ producer.pc = "return"
  /\ body' = [body EXCEPT !.closed = TRUE]
  /\ ch' = [ch EXCEPT !.closed = TRUE]
  /\ producer' = [producer EXCEPT !.pc = "done"]
  /\ UNCHANGED <<retryVars, limVars, regVars, sharedVars,
                 reader, consumer, streamCtx, pushed, yields>>

\* the caller cancels the context it handed to ChatStream
CancelStream ==
  /\ ~streamCtx
  /\ streamCtx' = TRUE
  /\ UNCHANGED <<retryVars, limVars, regVars, sharedVars,
                 ch, body, producer, reader, consumer, pushed, yields>>

NextStream ==
  \/ Scan
  \/ Send
  \/ ProducerReturn
  \/ CancelStream
  \/ NextReturnsClosed
  \/ NextCall
  \/ NextRecv

\* the producer goroutine runs whenever it can; the caller of Next need not
StreamFairness ==
  /\ WF_vars(Scan)
  /\ WF_vars(Send)
  /\ WF_vars(ProducerReturn)

SpecStream == InitStream /\ [][NextStream]_vars /\ StreamFairness

\* C29: once the context of the streaming call is cancelled, the producer
\* eventually has returned, the channel is closed and the response body is
\* closed, whether or not the caller calls Next again.
C29_ProducerTerminates ==
  streamCtx ~> (producer.pc = "done" /\ ch.closed /\ body.closed)


\* ------------------------------------------------------------------------
\* Concurrent calls through one RetryableClient: the shared Retryer
\* ------------------------------------------------------------------------

\* the values Retryer.rng hands out, in the order of its source
RngSeq == << <<0, 1>>, <<1, 2>>, <<3, 4>>, <<7, 8>> >>

\* the states of the source of Retryer.rng
RngStates == 0..(Len(RngSeq) - 1)

\* the value Float64 computes from the state s of the source
Float64(s) == RngSeq[s + 1]

\* the state Float64 leaves the source in when it found it in the state s
Advance(s) == (s + 1) % Len(RngSeq)

\* what a call through the shared Retryer may get from the wrapped client
SharedOutcomes ==
  { NoErr,
    APIError("server", TRUE, 0, MsgServerError),
    APIError("authentication", FALSE, 0, MsgUnauthorized) }

\* a call that has not started
IdleDo ==
  [pc |-> "idle", attempt |-> 0, err |-> NoErr, seen |-> 0, raced |-> FALSE,
   delay |-> 0, ret |-> NoErr]

\* WithRetry(client, WithRetryMaxRetries(n), WithRetryJitter(0.5), ...): one
\* Retryer, and with it one rng, for all calls of the client
InitShared ==
  /\ cfg \in {RetryConfig(n, 2, MaxDur, 2, 1, 1, 2, DefaultRetryableTypes) : n \in 1..MaxN}
  /\ method = "Chat"
  /\ pc = "idle"
  /\ attempt = 0
  /\ lastErr = NoErr
  /\ delay = 0
  /\ elapsed = 0
  /\ ctxErr = "nil"
  /\ result = [val |-> 0, err |-> NoErr]
  /\ outcomes = <<>>
  /\ waits = <<>>
  /\ cancelAt = NotCancelled
  /\ kIn = [k |-> 0, err |-> NoErr, u |-> <<0, 1>>]
  /\ LimInert
  /\ RegInert
  /\ StreamInert
  /\ rng \in RngStates
  /\ rc = [p \in LProcs |-> IdleDo]
  /\ outer = "none"

\* c.Chat(ctx, req) enters DoWithResult
DoStart(p) ==
  /\ rc[p].pc = "idle"
  /\ rc' = [rc EXCEPT ![p].pc = "invoke"]
  /\ UNCHANGED <<retryVars, limVars, regVars, streamVars, rng, outer>>

\* one pass of the loop of DoWithResult up to calculateDelay: the operation is
\* invoked; nil, a non-retryable error or no retry left end the call
DoInvoke(p) ==
  /\ rc[p].pc = "invoke"
  /\ \E e \in SharedOutcomes :
       rc' = [rc EXCEPT
                ![p] = IF e = NoErr \/ ~shouldRetry(e) \/ NoMoreRetries(rc[p].attempt)
                         THEN [@ EXCEPT !.pc = "done", !.err = e, !.ret = e]
                         ELSE [@ EXCEPT !.pc = IF cfg.JitNum > 0 /\ ~(e.RetryAfter > 0)
                                                 THEN "rngRead" ELSE "wait",
                                        !.err = e,
                                        !.delay = IF cfg.JitNum > 0 /\ ~(e.RetryAfter > 0)
                                                    THEN 0
                                                    ELSE calculateDelay(rc[p].attempt, e, <<0, 1>>)]]
  /\ UNCHANGED <<retryVars, limVars, regVars, streamVars, rng, outer>>

\* r.rng.Float64() reads the state of the source; no lock guards r.rng, so
\* another call may be inside Float64 too, and then both calls race
RngRead(p) ==
  /\ rc[p].pc = "rngRead"
  /\ rc' = [q \in LProcs |->
              IF q = p
                THEN [rc[p] EXCEPT !.pc = "rngWrite", !.seen = rng,
                                   !.raced = \E o \in LProcs \ {p} : rc[o].pc = "rngWrite"]
              ELSE IF rc[q].pc = "rngWrite" THEN [rc[q] EXCEPT !.raced = TRUE]
              ELSE rc[q]]
  /\ UNCHANGED <<retryVars, limVars, regVars, streamVars, rng, outer>>

\* r.rng.Float64() writes the source back and returns; calculateDelay returns
\* with the value. After a race the value and the state of the source are
\* whatever the unsynchronized accesses left
RngWrite(p) ==
  /\ rc[p].pc = "rngWrite"
  /\ \E s \in RngStates, n \in RngStates :
       /\ ~rc[p].raced => (s = rc[p].seen /\ n = Advance(s))
       /\ rng' = n
       /\ rc' = [rc EXCEPT ![p].pc = "wait", ![p].raced = FALSE,
                           ![p].delay = calculateDelay(rc[p].attempt, rc[p].err, Float64(s))]
  /\ UNCHANGED <<retryVars, limVars, regVars, streamVars, outer>>

\* case <-time.After(delay): the next pass of the loop
DoWait(p) ==
  /\ rc[p].pc = "wait"
  /\ rc' = [rc EXCEPT ![p].pc = "invoke", ![p].attempt = @ + 1]
  /\ UNCHANGED <<retryVars, limVars, regVars, streamVars, rng, outer>>

NextShared ==
  \E p \in LProcs :
    \/ DoStart(p)
    \/ DoInvoke(p)
    \/ RngRead(p)
    \/ RngWrite(p)
    \/ DoWait(p)

SpecShared == InitShared /\ [][NextShared]_vars

\* C30: no two calls through the same RetryableClient are inside an access to
\* the Retryer's random source at the same time: the state shared by the
\* calls is not read or written by two of them without synchronization.
C30_CallsIndependent ==
  \A p, q \in LProcs :
    (rc[p].pc = "rngWrite" /\ rc[q].pc = "rngWrite") => p = q


\* ------------------------------------------------------------------------
\* Further claims on Collect and on the channel
\* ------------------------------------------------------------------------

RECURSIVE LastFinish(_)
\* the FinishReason of the last chunk of s that has one, "" when none has
LastFinish(s) ==
  IF s = <<>> THEN ""
  ELSE IF s[Len(s)].FinishReason # "" THEN s[Len(s)].FinishReason
  ELSE LastFinish(SubSeq(s, 1, Len(s) - 1))

RECURSIVE LastUsage(_)
\* the Usage of the last chunk of s that reports one, the zero Usage when
\* none does
LastUsage(s) ==
  IF s = <<>> THEN 0
  ELSE IF s[Len(s)].Usage # 0 THEN s[Len(s)].Usage
  ELSE LastUsage(SubSeq(s, 1, Len(s) - 1))

\* C32: when Collect has returned and no chunk sent carries an error, the
\* response has one choice, its finish reason is that of the last chunk that
\* had one, its usage is that of the last chunk that reported usage, and when
\* no chunk had a finish reason the choice holds all the text and tool calls.
C32_LastFinishAndUsage ==
  (consumer.pc = "returned" /\ ErrorFree(pushed)) =>
    /\ consumer.ret.response # Nil
    /\ Len(consumer.ret.response[1].Choices) = 1
    /\ consumer.ret.response[1].Choices[1].FinishReason = LastFinish(pushed)
    /\ consumer.ret.response[1].Usage = LastUsage(pushed)
    /\ LastFinish(pushed) = "" =>
         /\ consumer.ret.response[1].Choices[1].Content = AllContent(pushed)
         /\ consumer.ret.response[1].Choices[1].ToolCalls = AllToolCalls(pushed)

\* the chunks the reader has taken out of the channel
Received == IF Len(yields) < Len(pushed) THEN Len(yields) ELSE Len(pushed)

\* C33: the channel holds the chunks sent and not yet received, in the order
\* of sending; the i-th Next call got the i-th chunk sent (and yielded it
\* unless it carries an error); the channel never holds more chunks than its
\* capacity, an unbuffered channel holding a chunk only while it hands it to
\* the receiver waiting for it.
C33_FifoBounded ==
  /\ \A i \in DOMAIN yields :
       IF i <= Len(pushed)
         THEN yields[i].chunk = IF pushed[i].Error = NoErr THEN <<pushed[i]>> ELSE Nil
         ELSE ~yields[i].ok
  /\ ch.buf = SubSeq(pushed, Received + 1, Len(pushed))
  /\ Len(ch.buf) <= IF ch.cap = 0 THEN 1 ELSE ch.cap
  /\ (ch.cap = 0 /\ ch.buf # <<>>) => consumer.pc = "recv"

\* three chunks were sent, the first was yielded and the other two fill the
\* channel: the producer cannot send now
C33_Witness ==
  /\ pushed = <<ChunkA, ChunkB, ChunkStop>>
  /\ yields = <<Yielded(ChunkA)>>
  /\ ch.buf = <<ChunkB, ChunkStop>>
  /\ ch.cap = 2
  /\ ~CanSend

\* ------------------------------------------------------------------------
\* Further claims on Do / DoWithResult
\* ------------------------------------------------------------------------

\* C36: a call that returned a nil error had an invocation of the operation
\* that returned a nil error, and a call whose context was not cancelled
\* invoked the operation at least once.
C36_SuccessNeedsInvocation ==
  pc = "done" =>
    /\ result.err = NoErr => \E i \in DOMAIN outcomes : outcomes[i].err = NoErr
    /\ cancelAt = NotCancelled => Len(outcomes) >= 1


\* C35 as stated: with a jitter fraction j in [0, 1] and no retry-after on the
\* error, the delay w before retry k satisfies c - c*j <= w <= c + c*j for
\* c = min(d*m^k, M), and w is not negative (both sides of each comparison are
\* multiplied by the denominators of m^k and j).
C35_JitterBand ==
  (pc = "delay_out" /\ cfg.JitNum <= cfg.JitDen /\ ~HasRetryAfter(kIn.err)) =>
     LET p == cfg.InitialDelay * Pow(cfg.MultNum, kIn.k)
         q == Pow(cfg.MultDen, kIn.k)
         m == cfg.MaxDelay * q
         c == IF p <= m THEN p ELSE m
     IN  /\ c * (cfg.JitDen - cfg.JitNum) <= delay * q * cfg.JitDen
         /\ delay * q * cfg.JitDen <= c * (cfg.JitDen + cfg.JitNum)
         /\ delay >= 0

\* C35 amended: with a jitter fraction j in [0, 1] and no retry-after on the
\* error, the delay w before retry k is a whole number of nanoseconds with
\* c - c*j - 1ns < w <= c + c*j for c = min(d*m^k, M), and w is not negative.
C35_JitterBandTruncated ==
  (pc = "delay_out" /\ cfg.JitNum <= cfg.JitDen /\ ~HasRetryAfter(kIn.err)) =>
     LET p == cfg.InitialDelay * Pow(cfg.MultNum, kIn.k)
         q == Pow(cfg.MultDen, kIn.k)
         m == cfg.MaxDelay * q
         c == IF p <= m THEN p ELSE m
     IN  /\ c * (cfg.JitDen - cfg.JitNum) < (delay + 1) * q * cfg.JitDen
         /\ delay * q * cfg.JitDen <= c * (cfg.JitDen + cfg.JitNum)
         /\ delay >= 0

\* c = 3ns, j = 0.5 and rng.Float64() = 0: 3ns - 1.5ns = 1.5ns, the delay is 1ns
C35_Witness ==
  /\ pc = "delay_out" /\ kIn.err = NoErr /\ kIn.k = 0 /\ kIn.u = <<0, 1>>
  /\ cfg.InitialDelay = 3 /\ cfg.MaxDelay = 4
  /\ cfg.MultNum = 1 /\ cfg.MultDen = 1
  /\ cfg.JitNum = 1 /\ cfg.JitDen = 2
  /\ delay = 1


\* what a step of the producer may do to the queue: nothing is pushed after an
\* error chunk or after the close, the close is the step on which the producer
\* returns, and at the close an error chunk, if the producer made one, is the
\* last chunk pushed and the only one carrying an error
ProducerOrder ==
  /\ ch.closed => (ch'.closed /\ pushed' = pushed)
  /\ pushed' # pushed => ErrorFree(pushed)
  /\ (producer.pc = "sendErr" /\ producer'.pc # "sendErr") =>
       (pushed' = Append(pushed, producer.chunk) /\ producer'.pc = "return")
  /\ (~ch.closed /\ ch'.closed) =>
       /\ producer.pc = "return"
       /\ producer'.pc = "done"
       /\ pushed' = pushed
       /\ IF producer.chunk.Error = NoErr
            THEN ErrorFree(pushed)
            ELSE /\ pushed # <<>>
                 /\ pushed[Len(pushed)] = producer.chunk
                 /\ ErrorFree(SubSeq(pushed, 1, Len(pushed) - 1))

\* C34: in every execution of a stream producer the queue is closed exactly
\* once, as the producer's last queue action: the producer eventually closes
\* it, nothing is pushed or closed afterwards, no error chunk is pushed on a
\* clean end, and after a failed read one error chunk is pushed last, before
\* the close.
C34_ClosedOnceLast ==
  [][ProducerOrder]_vars /\ <>(producer.pc = "done" /\ ch.closed)


\* ------------------------------------------------------------------------
\* The token ledger of the limiter
\* ------------------------------------------------------------------------

\* RateLimitedClient.Chat with callers that may cancel their context, before
\* the call reaches the mutex or later
NextCancelledClient ==
  \/ Build
  \/ \E p \in LProcs : LStart(p, "Chat")
  \/ \E p \in LProcs : LEnter(p)
  \/ \E p \in LProcs : LCritical(p)
  \/ \E p \in LProcs : LWakeTimer(p)
  \/ \E p \in LProcs : LWakeCtx(p)
  \/ \E p \in LProcs : LInner(p)
  \/ \E p \in LProcs : LCancel(p)
  \/ LTick

SpecCancelledClient ==
  InitLimiterWith(ClientLimConfigs) /\ [][NextCancelledClient]_vars

\* Acquire or TryAcquire of caller p is granted a token in this step
GrantedTo(p) ==
  /\ lim.state = "live"
  /\ Unlocks(p)
  /\ lp[p].op # "Available"
  /\ lp'[p].ok

\* the tokens in the bucket once the refill of this step, if it has one, is done
Refilled == IF \E p \in LProcs : Unlocks(p) THEN refill(lim, since).tokens ELSE lim.tokens

\* C37: under any interleaving of Acquire and TryAcquire calls no token is
\* granted twice: a step grants at most one token, the grant takes one whole
\* token out of what the bucket holds after the refill (the tokens held before
\* plus rate * elapsed, capped by the capacity) and the bucket never goes
\* below zero, so the grants made never exceed the capacity plus the refills.
C37_NoDoubleGrant ==
  [][ (lim.state = "live" /\ lim'.state = "live") =>
        LET g == Cardinality({p \in LProcs : GrantedTo(p)})
        IN  /\ g <= 1
            /\ lim'.tokens + g * TokenScale = Refilled
            /\ lim'.tokens >= 0
            /\ Refilled <= MinOf(lim.tokens + since * lim.rpm, lim.maxTokens) ]_vars

\* two callers and one token: one is granted, the other refused
C37_Witness ==
  /\ noTime
  /\ lim.state = "live"
  /\ lim.maxTokens = TokenScale
  /\ lim.tokens = 0
  /\ lp[1].op = "Acquire" /\ lp[1].pc = "done" /\ lp[1].ok /\ lp[1].took = 1
  /\ lp[2].op = "TryAcquire" /\ lp[2].pc = "done" /\ ~lp[2].ok /\ lp[2].took = 0

\* caller p's Acquire returns the error, or p's TryAcquire returns false
FailsIn(p) ==
  /\ lim.state = "live"
  /\ lp[p].op \in {"Acquire", "TryAcquire"}
  /\ lp[p].pc # "done"
  /\ lp'[p].pc = "done"
  /\ ~lp'[p].ok

\* C38: an Acquire that returns an error and a TryAcquire that returns false
\* consume no token: such a step leaves the limiter as it was apart from the
\* refill, the call has taken no token, and the tokens go down by exactly one
\* on a step that grants and on no other step.
C38_FailureConsumesNothing ==
  [][ /\ \A p \in LProcs :
           FailsIn(p) =>
             /\ lim' = [lim EXCEPT !.tokens = Refilled]
             /\ lp'[p].took = 0
      /\ (lim.state = "live" /\ lim'.state = "live") =>
           /\ lim' = [lim EXCEPT !.tokens = lim'.tokens]
           /\ IF \E p \in LProcs : GrantedTo(p)
                THEN lim'.tokens = Refilled - TokenScale
                ELSE lim'.tokens = Refilled /\ lim'.tokens >= lim.tokens ]_vars

\* a cancelled Acquire has returned the error and a TryAcquire false, with
\* the bucket still empty
C38_Witness ==
  /\ noTime
  /\ lim.state = "live"
  /\ lim.tokens = 0
  /\ lp[1].op = "Acquire" /\ lp[1].pc = "done" /\ ~lp[1].ok
  /\ lp[1].cancelled /\ lp[1].err = RateLimitTimeoutError /\ lp[1].took = 0
  /\ lp[2].op = "TryAcquire" /\ lp[2].pc = "done" /\ ~lp[2].ok

\* C39: Acquire tests the tokens before it looks at the context: with a token
\* in the bucket it takes it and returns nil even if the caller's context is
\* already cancelled, the RateLimitedClient then invokes the wrapped operation,
\* and the error of a done context is returned only from the wait.
C39_TokenBeforeCancel ==
  [][ \A p \in LProcs :
        /\ (lim.state = "live" /\ Unlocks(p) /\ Acquires(lp[p].op)
              /\ HasToken(refill(lim, since))) =>
             /\ lp'[p].ok
             /\ lp'[p].took = lp[p].took + 1
             /\ lp'[p].pc = IF lp[p].op \in ThrottledOps THEN "inner" ELSE "done"
        /\ (lp[p].pc = "inner" /\ lp'[p] # lp[p]) =>
             (lp'[p].innerN = 1 /\ lp'[p].pc = "done")
        /\ (Acquires(lp[p].op) /\ lp[p].pc # "done" /\ lp'[p].pc = "done"
              /\ lp'[p].innerN = 0 /\ ~lp'[p].ok) =>
             /\ lp[p].pc = "sleeping"
             /\ LimCtxDone(lp[p])
             /\ lp'[p].err = RateLimitTimeoutError ]_vars

\* Chat was called with a cancelled context and reached the wrapped client
C39_Witness ==
  \E p \in LProcs :
    /\ lim.state = "live"
    /\ lp[p].op = "Chat"
    /\ lp[p].cancelled
    /\ lp[p].sleeps = 0
    /\ lp[p].took = 1
    /\ lp[p].innerN = 1
    /\ lp[p].pc = "done"


\* ------------------------------------------------------------------------
\* Locks and suspension points: the constructor New calls, the sleep of Acquire
\* ------------------------------------------------------------------------

\* the constructor New has called calls Register(id, factory) itself, with a
\* factory of its own: Lock, store, Unlock, as in RegisterLock and RegisterStore
FactoryRegisters(p, id) ==
  /\ rp[p].op \in NewOps
  /\ rp[p].pc = "found"
  /\ rcalls < MaxCalls
  /\ registryMu.writer = 0
  /\ registryMu.readers = {}
  /\ rcalls' = rcalls + 1
  /\ registry' = registryStore(registry, id, rcalls + 1)
  /\ writes' = Append(writes, [id |-> id, factory |-> rcalls + 1])
  /\ regDone' = regDone \cup {rcalls + 1}
  /\ UNCHANGED <<retryVars, limVars, streamVars, sharedVars, registryMu, rp>>

\* either the registry is in use, by Register and New with constructors that
\* register providers themselves, or a limiter is, by Acquire, TryAcquire and
\* Available
InitLocks == InitRegistry \/ InitLimiterWith(FairConfigs)

NextLocks ==
  \/ /\ rp # <<>>
     /\ \/ \E p \in LProcs, id \in ProviderIDs : RegisterStart(p, id)
        \/ \E p \in LProcs : RegisterLock(p)
        \/ \E p \in LProcs : RegisterStore(p)
        \/ \E p \in LProcs, id \in ProviderIDs : NewStart(p, "New", id)
        \/ \E p \in LProcs : NewRLock(p)
        \/ \E p \in LProcs : NewLookup(p)
        \/ \E p \in LProcs : NewFactory(p)
        \/ \E p \in LProcs : NewUnknown(p)
        \/ \E p \in LProcs, id \in ProviderIDs : FactoryRegisters(p, id)
  \/ /\ lp # <<>>
     /\ \/ Build
        \/ \E p \in LProcs, op \in LimiterOps : LStart(p, op)
        \/ \E p \in LProcs : LEnter(p)
        \/ \E p \in LProcs : LCritical(p)
        \/ \E p \in LProcs : LWakeTimer(p)
        \/ \E p \in LProcs : LWakeCtx(p)
        \/ LTick

SpecLocks == InitLocks /\ [][NextLocks]_vars

\* C31: no lock is held across a suspension point. A caller of New that is in
\* the constructor, or past the lookup on its way to the error, holds no lock
\* of the registry, and the registry lock is held only by callers between
\* their Lock/RLock and their Unlock/RUnlock, so Register, New and Providers of
\* the constructor or of other callers can take it; a caller of Acquire that
\* sleeps does not hold the limiter mutex, which is held only by a caller
\* between Lock and Unlock, so TryAcquire, Available and Acquire of the others
\* can take it.
C31_NoLockAcrossSuspension ==
  /\ rp # <<>> =>
       /\ \A p \in LProcs :
            rp[p].pc \in {"found", "unknown"} =>
              (p \notin registryMu.readers /\ registryMu.writer # p)
       /\ registryMu.writer # 0 => rp[registryMu.writer].pc = "locked"
       /\ \A q \in registryMu.readers : rp[q].pc = "locked"
  /\ lp # <<>> =>
       /\ \A p \in LProcs : lp[p].pc = "sleeping" => mu # p
       /\ mu # 0 => lp[mu].pc = "locked"

\* caller 1 is in the constructor of "alpha", which has registered "beta"
\* itself, and no lock is held
C31_Witness ==
  /\ rp # <<>>
  /\ rp[1].op = "New" /\ rp[1].pc = "found" /\ rp[1].id = "alpha" /\ rp[1].factory = 1
  /\ rp[2].op = "Register" /\ rp[2].pc = "done"
  /\ writes = <<[id |-> "alpha", factory |-> 1], [id |-> "beta", factory |-> 3]>>
  /\ registryMu = [writer |-> 0, readers |-> {}]


\* ------------------------------------------------------------------------
\* RetryableClient and RateLimitedClient wrapping one another
\*
\* Caller 1 makes one Chat call on the outer wrapper, on a limiter that is
\* full or whose token has just been taken. Durations are in ticks.
\* ------------------------------------------------------------------------

\* DefaultRetryConfig(): 3 retries, 1s, 30s, 2.0, 0.1, the default types
DefaultRetryConfig ==
  RetryConfig(3, TicksPerSecond, 30 * TicksPerSecond, 2, 1, 1, 10, DefaultRetryableTypes)

\* limiters that refill within a backoff and limiters that stay empty through
\* every backoff of the default policy
StackedLimConfigs ==
  [RequestsPerMinute : {5, 60}, BurstSize : {1}, WaitTimeout : {2}]

\* the values rng.Float64() returns here: the two ends of its range
StackedDraws == { <<0, 1>>, <<7, 8>> }

InitStacked ==
  /\ cfg = DefaultRetryConfig
  /\ method = "Chat"
  /\ pc = "idle"
  /\ attempt = 0
  /\ lastErr = NoErr
  /\ delay = 0
  /\ elapsed = 0
  /\ ctxErr = "nil"
  /\ result = [val |-> 0, err |-> NoErr]
  /\ outcomes = <<>>
  /\ waits = <<>>
  /\ cancelAt = NotCancelled
  /\ kIn = [k |-> 0, err |-> NoErr, u |-> <<0, 1>>]
  /\ lcfg \in StackedLimConfigs
  /\ lim \in {NewRateLimiter(lcfg), consume(NewRateLimiter(lcfg))}
  /\ since = 0
  /\ mu = 0
  /\ lp = [p \in LProcs |-> IdleCall]
  /\ ncalls = 0
  /\ tryLog = <<>>
  /\ noTime = TRUE
  /\ RegInert
  /\ StreamInert
  /\ rng = 0
  /\ rc = <<>>
  /\ outer \in {"retry", "limiter"}

\* retry outside: the caller calls RetryableClient.Chat
OuterRetryStart ==
  /\ outer = "retry"
  /\ StartCall

\* retry outside: fn() is RateLimitedClient.Chat, which begins with Acquire
InvokeLimited ==
  /\ outer = "retry"
  /\ pc = "invoke"
  /\ pc' = "call"
  /\ lp' = [lp EXCEPT ![1] = [IdleCall EXCEPT !.op = "Chat", !.pc = "enter",
                                              !.deadlineLeft = AcquireDeadline(lim, "Chat")]]
  /\ UNCHANGED <<cfg, method, attempt, lastErr, delay, elapsed, ctxErr, result,
                 outcomes, waits, cancelAt, kIn,
                 lcfg, lim, since, mu, ncalls, tryLog, noTime,
                 regVars, streamVars, sharedVars>>

\* retry outside: the wrapped client is called after Acquire returned nil
InnermostChat ==
  /\ outer = "retry"
  /\ LInner(1)

\* retry outside: RateLimitedClient.Chat has returned to the loop of DoWithResult
InvokeReturn ==
  /\ outer = "retry"
  /\ pc = "call"
  /\ lp[1].pc = "done"
  /\ \E u \in StackedDraws :
       Attempted([op |-> "Chat", val |-> lp[1].val,
                  err |-> IF lp[1].ok THEN NoErr ELSE lp[1].err,
                  took |-> lp[1].took, innerN |-> lp[1].innerN], u)
  /\ UNCHANGED <<cfg, method, attempt, ctxErr, waits, cancelAt, kIn, extVars>>

\* limiter outside: the caller calls RateLimitedClient.Chat
OuterLimiterStart ==
  /\ outer = "limiter"
  /\ pc = "idle"
  /\ lp[1].pc = "idle"
  /\ LStart(1, "Chat")

\* limiter outside: after Acquire returned nil, RetryableClient.Chat is called
InnerRetryStart ==
  /\ outer = "limiter"
  /\ lp[1].pc = "inner"
  /\ StartCall

\* limiter outside: fn() is the Chat of the innermost client
InvokeInnermost ==
  /\ outer = "limiter"
  /\ pc = "invoke"
  /\ \E out \in WrappedOutcomes("Chat"), u \in StackedDraws : Attempted(out, u)
  /\ UNCHANGED <<cfg, method, attempt, ctxErr, waits, cancelAt, kIn, extVars>>

\* limiter outside: RetryableClient.Chat has returned to RateLimitedClient.Chat
InnerRetryReturn ==
  /\ outer = "limiter"
  /\ lp[1].pc = "inner"
  /\ pc = "done"
  /\ lp' = [lp EXCEPT ![1] = [@ EXCEPT !.pc = "done", !.innerN = @ + 1,
                                       !.ok = (result.err = NoErr),
                                       !.val = result.val, !.err = result.err]]
  /\ UNCHANGED <<retryVars, regVars, streamVars, sharedVars,
                 lcfg, lim, since, mu, ncalls, tryLog, noTime>>

\* one tick passes for the limiter and for the backoff of the retry engine,
\* while nothing else can run
ClockTick ==
  /\ \A p \in LProcs :
       \/ lp[p].pc \in {"idle", "done"}
       \/ Asleep(lp[p])
       \/ p = 1 /\ lp[p].pc = "inner" /\ outer = "limiter"
  /\ \/ pc \in {"idle", "done"} /\ lp[1].pc # "inner"
     \/ pc = "waiting" /\ ~TimerReady
     \/ pc = "call" /\ lp[1].pc = "sleeping"
  /\ Elapse
  /\ elapsed' = IF pc = "waiting" THEN elapsed + 1 ELSE elapsed
  /\ UNCHANGED <<cfg, method, pc, attempt, lastErr, delay, ctxErr, result,
                 outcomes, waits, cancelAt, kIn,
                 lcfg, lim, mu, ncalls,
                 regVars, streamVars, sharedVars>>

NextStacked ==
  \/ OuterRetryStart
  \/ OuterLimiterStart
  \/ InnerRetryStart
  \/ LoopHead
  \/ InvokeLimited
  \/ InvokeInnermost
  \/ InvokeReturn
  \/ InnerRetryReturn
  \/ InnermostChat
  \/ TimerFired
  \/ \E p \in LProcs : LEnter(p)
  \/ \E p \in LProcs : LCritical(p)
  \/ \E p \in LProcs : LWakeTimer(p)
  \/ \E p \in LProcs : LWakeCtx(p)
  \/ ClockTick

SpecStacked == InitStacked /\ [][NextStacked]_vars

\* C40: with the default policy around a RateLimitedClient the wait-timeout
\* error of the limiter is retryable: the call does not end on it while a
\* retry is left, every further attempt follows a backoff that ran out and
\* calls Acquire again, at most MaxRetries + 1 attempts are made, and the
\* innermost client is invoked in an attempt exactly if its Acquire took a
\* token. With the limiter around the RetryableClient the call takes at most
\* one token, and exactly one whenever the retry engine made an attempt,
\* however many it made.
C40_Stacked ==
  /\ outer = "retry" =>
       /\ Len(outcomes) <= cfg.MaxRetries + 1
       /\ pc \in {"loop", "invoke", "call"} => Len(waits) = Len(outcomes)
       /\ \A i \in DOMAIN waits : waits[i].by = "timer" /\ waits[i].waited = waits[i].delay
       /\ \A i \in DOMAIN outcomes :
            IF outcomes[i].took = 1
              THEN outcomes[i].innerN = 1
              ELSE /\ outcomes[i].took = 0
                   /\ outcomes[i].innerN = 0
                   /\ outcomes[i].err = RateLimitTimeoutError
       /\ (pc = "done" /\ result.err = RateLimitTimeoutError) =>
            Len(outcomes) = cfg.MaxRetries + 1
       /\ pc = "call" => (lp[1].innerN = 1 => lp[1].took = 1)
  /\ outer = "limiter" =>
       /\ lp[1].took <= 1
       /\ Len(outcomes) >= 1 => lp[1].took = 1
       /\ (lp[1].pc = "done" /\ lp[1].took = 0) =>
            (outcomes = <<>> /\ lp[1].err = RateLimitTimeoutError)

\* retry outside: four attempts, each ended by the wait timeout of Acquire,
\* and the innermost client never invoked
C40_Witness ==
  /\ outer = "retry"
  /\ pc = "done"
  /\ result.err = RateLimitTimeoutError
  /\ Len(outcomes) = 4
  /\ \A i \in DOMAIN outcomes : outcomes[i].err = RateLimitTimeoutError /\ outcomes[i].innerN = 0
  /\ Len(waits) = 3

====
